---------------------------- MODULE Spec2Model ----------------------------
(***************************************************************************)
(* A model of class-rs (minirop/class-rs): the reader and the writer of    *)
(* JVM class files.  Bytes are integers 0..255, a byte stream is a         *)
(* sequence of bytes.  The pure functions of the crate are operators; the  *)
(* specifications below draw their inputs in Init and apply them in        *)
(* actions, one action per call of the library.                            *)
(*                                                                         *)
(*   Spec       JVMClass::load / JVMClass::store                           *)
(*   SpecFlags  extract_flags / compact_flags over the nine tables         *)
(*   SpecPool   read_constant_pool / write_constant_pool                   *)
(*   SpecCode   decompile / compile / Instruction::size                    *)
(*   SpecString JVMClass::get_string / JVMClass::get_string_index          *)
(*   SpecFrame  one stack_map_frame of the StackMapTable arm               *)
(*                                                                         *)
(* The attribute arms "AnnotationDefault" and the six                      *)
(* "Runtime...Annotations" are outside the model, and "StackMapTable" is   *)
(* modelled frame by frame in SpecFrame only: the class files of Spec hold *)
(* none of these names, and a reader that met one would end as "other".    *)
(***************************************************************************)
EXTENDS Integers, Sequences, FiniteSets, TLC

VARIABLES
    build,     \* "debug": an arithmetic overflow panics; "release": it wraps
    kin,       \* Spec: the class file the input is made of
    kself,     \* Spec: the JVMClass after load, and the reader
    kp0,       \* Spec: the position of the writer when store began
    kout,      \* Spec: what store left in the writer
    kagain,    \* Spec: the JVMClass after load on the bytes store wrote
    kphase,    \* Spec: "start" | "loaded" | "stored" | "reloaded"
    fctx,      \* SpecFlags: the flag context (which mapping table)
    fmask,     \* SpecFlags: the 16-bit mask read from the wire
    fflags,    \* SpecFlags: Vec<AccessFlag> returned by extract_*_flags
    fpacked,   \* SpecFlags: u16 returned by compact_*_flags
    fphase,    \* SpecFlags: "start" | "unpacked" | "packed"
    pchunks,   \* SpecPool: the cp_info structures the input is made of
    pcount,    \* SpecPool: the constant_pool_count of the input
    pread,     \* SpecPool: what read_constant_pool returned
    pwritten,  \* SpecPool: what write_constant_pool left in the writer
    pagain,    \* SpecPool: what read_constant_pool returned on the bytes written
    pphase,    \* SpecPool: "start" | "read" | "written" | "again"
    catoms,    \* SpecCode: the instructions the input bytecode is made of
    ctrail,    \* SpecCode: the bytes that follow the bytecode in the reader
    cinsts,    \* SpecCode: what decompile returned
    cout,      \* SpecCode: what compile left in the writer
    csizes,    \* SpecCode: Instruction::size of each instruction
    cagain,    \* SpecCode: what decompile returned on the bytes compile wrote
    cphase,    \* SpecCode: "start" | "decoded" | "compiled" | "sized" | "again"
    gconstants, \* SpecString: the constants of the JVMClass
    gid,       \* SpecString: the id given to get_string
    gstring,   \* SpecString: the string given to get_string_index
    gresult,   \* SpecString: what get_string returned
    gindex,    \* SpecString: what get_string_index returned
    gphase,    \* SpecString: "start" | "resolved" | "indexed"
    mbytes,    \* SpecFrame: the bytes of a stack_map_frame, and what follows
    mframe,    \* SpecFrame: the frame the StackMapTable arm pushed, and the reader
    mphase     \* SpecFrame: "start" | "read"

classVars == <<kin, kself, kp0, kout, kagain, kphase>>
flagVars == <<fctx, fmask, fflags, fpacked, fphase>>
poolVars == <<pchunks, pcount, pread, pwritten, pagain, pphase>>
codeVars == <<catoms, ctrail, cinsts, cout, csizes, cagain, cphase>>
stringVars == <<gconstants, gid, gstring, gresult, gindex, gphase>>
frameVars == <<mbytes, mframe, mphase>>
vars == <<build, classVars, flagVars, poolVars, codeVars, stringVars, frameVars>>

(***************************************************************************)
(* Bounds of the model                                                     *)
(***************************************************************************)
\* masks drawn in SpecFlags have at most this many bits set, or at most this
\* many bits clear
MaxFlagBits == 2
\* inputs of SpecPool hold at most this many cp_info structures
MaxPoolEntries == 2
\* bytecode is drawn as sequences of at most this many instructions
MaxCodeInsts == 3
\* the attribute list of a class of Spec holds at most this many attributes
MaxAttributes == 2
\* the constants of SpecString are Invalid and at most this many entries
MaxStringPool == 2
\* a stack_map_frame of SpecFrame is a frame_type and at most this many bytes
MaxFrameBytes == 6

(***************************************************************************)
(* Integer helpers: u16 bit operations                                     *)
(***************************************************************************)
RECURSIVE BitAnd(_, _)
BitAnd(a, b) ==
    IF a = 0 \/ b = 0 THEN 0
    ELSE (IF a % 2 = 1 /\ b % 2 = 1 THEN 1 ELSE 0) + 2 * BitAnd(a \div 2, b \div 2)

RECURSIVE BitOr(_, _)
BitOr(a, b) ==
    IF a = 0 THEN b
    ELSE IF b = 0 THEN a
    ELSE (IF a % 2 = 1 \/ b % 2 = 1 THEN 1 ELSE 0) + 2 * BitOr(a \div 2, b \div 2)

RECURSIVE PopCount(_)
PopCount(a) == IF a = 0 THEN 0 ELSE (a % 2) + PopCount(a \div 2)

(***************************************************************************)
(* mapping.rs: the nine (mask, flag) tables, in declared order             *)
(***************************************************************************)
CLASS_FLAGS == <<
    <<\h0001, "Public">>, <<\h0010, "Final">>, <<\h0020, "Super">>,
    <<\h0200, "Interface">>, <<\h0400, "Abstract">>, <<\h1000, "Synthetic">>,
    <<\h2000, "Annotation">>, <<\h4000, "Enum">>, <<\h8000, "Module">> >>

INNER_CLASS_FLAGS == <<
    <<\h0001, "Public">>, <<\h0002, "Private">>, <<\h0004, "Protected">>,
    <<\h0008, "Static">>, <<\h0010, "Final">>, <<\h0200, "Interface">>,
    <<\h0400, "Abstract">>, <<\h1000, "Synthetic">>, <<\h2000, "Annotation">>,
    <<\h4000, "Enum">> >>

FIELD_FLAGS == <<
    <<\h0001, "Public">>, <<\h0002, "Private">>, <<\h0004, "Protected">>,
    <<\h0008, "Static">>, <<\h0010, "Final">>, <<\h0040, "Volatile">>,
    <<\h0080, "Transient">>, <<\h1000, "Synthetic">>, <<\h4000, "Enum">> >>

METHOD_FLAGS == <<
    <<\h0001, "Public">>, <<\h0002, "Private">>, <<\h0004, "Protected">>,
    <<\h0008, "Static">>, <<\h0010, "Final">>, <<\h0020, "Synchronized">>,
    <<\h0040, "Bridge">>, <<\h0080, "VarArgs">>, <<\h0100, "Native">>,
    <<\h0400, "Abstract">>, <<\h0800, "Strict">>, <<\h1000, "Synthetic">> >>

METHOD_PARAMETER_FLAGS == <<
    <<\h0010, "Final">>, <<\h1000, "Synthetic">>, <<\h8000, "Mandated">> >>

MODULE_FLAGS == <<
    <<\h0020, "Open">>, <<\h1000, "Synthetic">>, <<\h8000, "Mandated">> >>

MODULE_REQUIRES_FLAGS == <<
    <<\h0020, "Transitive">>, <<\h0040, "StaticPhase">>,
    <<\h1000, "Synthetic">>, <<\h8000, "Mandated">> >>

MODULE_OPENS_FLAGS == << <<\h1000, "Synthetic">>, <<\h8000, "Mandated">> >>

MODULE_EXPORTS_FLAGS == << <<\h1000, "Synthetic">>, <<\h8000, "Mandated">> >>

\* the table of extract_class_flags and compact_class_flags, and likewise of
\* the other eight pairs of wrappers
FlagTable(ctx) ==
    CASE ctx = "class" -> CLASS_FLAGS
      [] ctx = "inner_class" -> INNER_CLASS_FLAGS
      [] ctx = "field" -> FIELD_FLAGS
      [] ctx = "method" -> METHOD_FLAGS
      [] ctx = "method_parameter" -> METHOD_PARAMETER_FLAGS
      [] ctx = "module" -> MODULE_FLAGS
      [] ctx = "requires" -> MODULE_REQUIRES_FLAGS
      [] ctx = "opens" -> MODULE_OPENS_FLAGS
      [] ctx = "exports" -> MODULE_EXPORTS_FLAGS

(***************************************************************************)
(* reader.rs: extract_flags; extract_class_flags(flags) and the other     *)
(* eight wrappers are extract_flags(flags, FlagTable(...))                 *)
(***************************************************************************)
RECURSIVE MapSnd(_)
MapSnd(pairs) ==
    IF pairs = <<>> THEN <<>> ELSE <<Head(pairs)[2]>> \o MapSnd(Tail(pairs))

\* a plausible slip: the filter compares the mask with the whole word
extract_flags_eq(flags, mapping) ==
    MapSnd(SelectSeq(mapping, LAMBDA e : e[1] = flags))

\* mapping.iter().filter(|(value, _)| (value & flags) != 0).map(|(_, e)| *e)
extract_flags(flags, mapping) ==
    MapSnd(SelectSeq(mapping, LAMBDA e : BitAnd(e[1], flags) # 0))


(***************************************************************************)
(* writer.rs: compact_flags; the nine wrappers likewise                    *)
(***************************************************************************)
\* flags.contains(flag) on a Vec
Contains(seq, x) == \E i \in 1..Len(seq) : seq[i] = x

RECURSIVE SumFst(_)
SumFst(pairs) ==
    IF pairs = <<>> THEN 0 ELSE Head(pairs)[1] + SumFst(Tail(pairs))

\* mapping.iter().filter(|(_, flag)| flags.contains(flag)).map(|(value, _)| *value).sum()
\* The sum is a u16; the masks of one table are distinct bits, so it cannot
\* exceed 0xFFFF.
compact_flags(flags, mapping) ==
    SumFst(SelectSeq(mapping, LAMBDA e : Contains(flags, e[2])))


(***************************************************************************)
(* Byte streams.  A reader is [buf, pos, st]: the bytes, the number of     *)
(* bytes consumed, and "ok" or the way the call ended: "eof" (an           *)
(* io::Error of read_exact, returned with ?), "panic" (unwrap, assert,     *)
(* unreachable, panic), "overflow" (an arithmetic overflow in a debug      *)
(* build, a panic), "java" (a JavaError returned with ?), "abort" (the     *)
(* stack ran out), "oom" (a buffer too large to build).  Once st is not    *)
(* "ok" every later read returns zeros and leaves the reader as it is,     *)
(* which is how ? and a panic skip the rest of the function.  The reader   *)
(* is an in-memory one (a slice, a Cursor): read() fills the buffer unless *)
(* the bytes run out.                                                      *)
(***************************************************************************)
Res(v, r) == [v |-> v, r |-> r]

NewReader(buf) == [buf |-> buf, pos |-> 0, st |-> "ok"]

Fail(r, how) == IF r.st = "ok" THEN [r EXCEPT !.st = how] ELSE r

Zeros(n) == [i \in 1..n |-> 0]

Min(a, b) == IF a < b THEN a ELSE b

RECURSIVE Sum(_)
Sum(ns) == IF ns = <<>> THEN 0 ELSE Head(ns) + Sum(Tail(ns))

RECURSIVE Concat(_)
Concat(seqs) == IF seqs = <<>> THEN <<>> ELSE Head(seqs) \o Concat(Tail(seqs))

\* Read::read_exact on n bytes
read_exact(r, n) ==
    IF r.st # "ok" THEN Res(Zeros(n), r)
    ELSE IF r.pos + n > Len(r.buf) THEN Res(Zeros(n), Fail(r, "eof"))
    ELSE Res(SubSeq(r.buf, r.pos + 1, r.pos + n), [r EXCEPT !.pos = @ + n])

\* Read::read into vec![0u8; n], n a u32: a short read at the end of the
\* input is no error and leaves the rest of the buffer zero.  A buffer by the
\* gigabyte is not built: the call is taken to run out of memory
read_buf(r, n) ==
    IF r.st # "ok" THEN Res(<<>>, r)
    ELSE IF n < 0 \/ n >= 1073741824 THEN Res(<<>>, Fail(r, "oom"))
    ELSE LET got == Min(n, Len(r.buf) - r.pos) IN
         Res(SubSeq(r.buf, r.pos + 1, r.pos + got) \o Zeros(n - got),
             [r EXCEPT !.pos = @ + got])

\* The integer kinds of byteorder, big-endian.  A u32 is kept as the i32 of
\* the same bits, so that one from 2^31 on is a negative number; "b4" and
\* "b8" are an f32 and an i64 or f64, kept as their bytes.
Width(kind) ==
    CASE kind \in {"u8", "i8"} -> 1
      [] kind \in {"u16", "i16"} -> 2
      [] kind \in {"u32", "i32", "b4"} -> 4
      [] kind = "b8" -> 8

Signed(u, bits) == IF u >= 2 ^ (bits - 1) THEN u - 2 ^ bits ELSE u

FromBytes(kind, b) ==
    CASE kind = "u8" -> b[1]
      [] kind = "i8" -> Signed(b[1], 8)
      [] kind = "u16" -> b[1] * 256 + b[2]
      [] kind = "i16" -> Signed(b[1] * 256 + b[2], 16)
      [] kind \in {"u32", "i32"} ->
            ((Signed(b[1], 8) * 256 + b[2]) * 256 + b[3]) * 256 + b[4]
      [] kind \in {"b4", "b8"} -> b

ToBytes(kind, n) ==
    CASE kind \in {"u8", "i8"} -> <<n % 256>>
      [] kind \in {"u16", "i16"} -> <<(n \div 256) % 256, n % 256>>
      [] kind \in {"u32", "i32"} ->
            <<(n \div 16777216) % 256, (n \div 65536) % 256, (n \div 256) % 256, n % 256>>
      [] kind \in {"b4", "b8"} -> n

\* r.read_<kind>()
read_kind(r, kind) ==
    LET value(x) == Res(FromBytes(kind, x.v), x.r) IN value(read_exact(r, Width(kind)))

\* r.read_<kind>()? for each of the kinds in turn: the values read
read_kinds(r, kinds) ==
    LET at(k) == Sum([j \in 1..(k - 1) |-> Width(kinds[j])])
        values(x) ==
            Res([k \in 1..Len(kinds) |->
                    FromBytes(kinds[k], SubSeq(x.v, at(k) + 1, at(k + 1)))], x.r)
    IN values(read_exact(r, at(Len(kinds) + 1)))

\* n times r.read_<kind>()?, the values pushed; n can be any u32
read_repeat(r, n, kind) ==
    IF r.st # "ok" THEN Res(<<>>, r)
    ELSE IF n > (Len(r.buf) - r.pos) \div Width(kind) THEN Res(<<>>, Fail(r, "eof"))
    ELSE read_kinds(r, [k \in 1..n |-> kind])

\* cursor.seek(SeekFrom::Current(offset))
seek_current(c, offset) == IF c.st # "ok" THEN c ELSE [c EXCEPT !.pos = @ + offset]

(***************************************************************************)
(* A writer is [buf, pos, st, patched]: a Cursor over a Vec<u8>, and the   *)
(* attr_start, attr_end and attr_name of each attribute write_attributes   *)
(* has patched so far.  A write overwrites at pos and extends the buffer   *)
(* at its end.                                                             *)
(***************************************************************************)
NewWriter == [buf |-> <<>>, pos |-> 0, st |-> "ok", patched |-> <<>>]

write_all(w, bytes) ==
    IF w.st # "ok" THEN w
    ELSE [w EXCEPT
            !.buf = SubSeq(w.buf, 1, w.pos) \o bytes
                    \o SubSeq(w.buf, w.pos + Len(bytes) + 1, Len(w.buf)),
            !.pos = @ + Len(bytes)]

\* w.seek(SeekFrom::Start(p))
seek_start(w, p) == IF w.st # "ok" THEN w ELSE [w EXCEPT !.pos = p]

\* w.write_<kind>(value)? for each of the kinds in turn
KindBytes(kinds, values) == Concat([k \in 1..Len(kinds) |-> ToBytes(kinds[k], values[k])])

write_kinds(w, kinds, values) == write_all(w, KindBytes(kinds, values))

\* w.write_<kind>(value)?
write_kind(w, kind, n) == write_all(w, ToBytes(kind, n))

\* for x in xs { Write(w, x)? }
RECURSIVE WriteEach(_, _, _)
WriteEach(Write(_, _), w, xs) ==
    IF xs = <<>> \/ w.st # "ok" THEN w
    ELSE LET w1 == Write(w, Head(xs)) IN
         IF w1.st = "ok" THEN WriteEach(Write, w1, Tail(xs)) ELSE w1

(***************************************************************************)
(* String::from_utf8: the byte sequences that are well-formed UTF-8        *)
(***************************************************************************)
IsCont(b) == b >= 128 /\ b <= 191

\* the length of the well-formed UTF-8 sequence at position k, 0 if none
Utf8Len(s, k) ==
    LET b == s[k]
        n == Len(s) - k + 1
    IN IF b < 128 THEN 1
       ELSE IF b >= 194 /\ b <= 223
            THEN IF n >= 2 /\ IsCont(s[k + 1]) THEN 2 ELSE 0
       ELSE IF b >= 224 /\ b <= 239
            THEN IF /\ n >= 3
                    /\ IsCont(s[k + 1]) /\ IsCont(s[k + 2])
                    /\ (b = 224 => s[k + 1] >= 160)
                    /\ (b = 237 => s[k + 1] <= 159)
                 THEN 3 ELSE 0
       ELSE IF b >= 240 /\ b <= 244
            THEN IF /\ n >= 4
                    /\ IsCont(s[k + 1]) /\ IsCont(s[k + 2]) /\ IsCont(s[k + 3])
                    /\ (b = 240 => s[k + 1] >= 144)
                    /\ (b = 244 => s[k + 1] <= 143)
                 THEN 4 ELSE 0
       ELSE 0

RECURSIVE IsUtf8From(_, _)
IsUtf8From(s, k) ==
    IF k > Len(s) THEN TRUE
    ELSE LET n == Utf8Len(s, k) IN
         IF n = 0 THEN FALSE ELSE IsUtf8From(s, k + n)

IsUtf8(s) == IsUtf8From(s, 1)

(***************************************************************************)
(* enums/mod.rs: Constant.  A Utf8 holds the bytes of its String.          *)
(***************************************************************************)
Invalid == [tag |-> "Invalid"]
Utf8(bytes) == [tag |-> "Utf8", bytes |-> bytes]
Class(name_index) == [tag |-> "Class", name_index |-> name_index]
Long(be) == [tag |-> "Long", be |-> be]
Double(be) == [tag |-> "Double", be |-> be]

(***************************************************************************)
(* reader.rs: read_constant_pool                                           *)
(***************************************************************************)
\* the arm of tag 1
read_utf8(r0) ==
    LET string(buff) ==
            IF buff.r.st = "ok" /\ ~IsUtf8(buff.v)
            THEN Res(Invalid, Fail(buff.r, "panic"))
            ELSE Res(Utf8(buff.v), buff.r)
        bytes(length) == string(read_buf(length.r, length.v))
    IN bytes(read_kind(r0, "u16"))

\* the arms of the other tags: the constant made of the fields read
constant_of(tag, f) ==
    CASE tag = 3 -> [tag |-> "Integer", value |-> f[1]]
      [] tag = 4 -> [tag |-> "Float", be |-> f[1]]
      [] tag = 5 -> Long(f[1])
      [] tag = 6 -> Double(f[1])
      [] tag = 7 -> Class(f[1])
      [] tag = 8 -> [tag |-> "String", string_index |-> f[1]]
      [] tag = 9 -> [tag |-> "Fieldref", class_index |-> f[1], name_and_type_index |-> f[2]]
      [] tag = 10 -> [tag |-> "Methodref", class_index |-> f[1], name_and_type_index |-> f[2]]
      [] tag = 11 ->
            [tag |-> "InterfaceMethodref", class_index |-> f[1], name_and_type_index |-> f[2]]
      [] tag = 12 -> [tag |-> "NameAndType", name_index |-> f[1], descriptor_index |-> f[2]]
      [] tag = 15 -> [tag |-> "MethodHandle", reference_kind |-> f[1], reference_index |-> f[2]]
      [] tag = 16 -> [tag |-> "MethodType", descriptor_index |-> f[1]]
      [] tag = 17 ->
            [tag |-> "Dynamic", bootstrap_method_attr_index |-> f[1],
             name_and_type_index |-> f[2]]
      [] tag = 18 ->
            [tag |-> "InvokeDynamic", bootstrap_method_attr_index |-> f[1],
             name_and_type_index |-> f[2]]
      [] tag = 19 -> [tag |-> "Module", name_index |-> f[1]]
      [] tag = 20 -> [tag |-> "Package", name_index |-> f[1]]

\* and the fields they read
constant_fields(tag) ==
    CASE tag = 3 -> <<"i32">>
      [] tag = 4 -> <<"b4">>
      [] tag \in {5, 6} -> <<"b8">>
      [] tag \in {7, 8, 16, 19, 20} -> <<"u16">>
      [] tag \in {9, 10, 11, 12, 17, 18} -> <<"u16", "u16">>
      [] tag = 15 -> <<"u8", "u16">>

\* `match tag`: the constant and the reader after it
read_constant(r0, tag) ==
    LET made(f) == Res(constant_of(tag, f.v), f.r) IN
    IF r0.st # "ok" THEN Res(Invalid, r0)
    ELSE IF tag = 1 THEN read_utf8(r0)
    ELSE IF tag \in {3, 4, 5, 6, 7, 8, 9, 10, 11, 12, 15, 16, 17, 18, 19, 20}
         THEN made(read_kinds(r0, constant_fields(tag)))
    ELSE Res(Invalid, Fail(r0, "panic"))

\* a slip: the placeholder after a Long or a Double is forgotten
push_constant_no_placeholder(constants, cnst) == constants \o <<cnst>>

\* what one iteration pushes: the constant, and an Invalid after a Long or a
\* Double
push_constant(constants, cnst) ==
    IF cnst.tag \in {"Double", "Long"}
    THEN constants \o <<cnst, Invalid>>
    ELSE constants \o <<cnst>>

\* a slip: the loop runs i up to count and never stops before it
RECURSIVE pool_loop_to_count(_)
pool_loop_to_count(s) ==
    LET pushed(cnst) ==
            [s EXCEPT
                !.r = cnst.r,
                !.i = @ + 1,
                !.double_constants = @ + (IF cnst.v.tag \in {"Double", "Long"} THEN 1 ELSE 0),
                !.constants = IF cnst.r.st = "ok" THEN push_constant(@, cnst.v) ELSE @]
        entry(tag) == pushed(read_constant(tag.r, tag.v))
    IN IF s.r.st # "ok" \/ s.i >= s.count THEN s
       ELSE pool_loop_to_count(entry(read_kind(s.r, "u8")))

\* `for i in 1..count`, from the iteration of s.i on; s holds the reader,
\* count, i, double_constants and constants
RECURSIVE pool_loop(_)
pool_loop(s) ==
    LET pushed(cnst) ==
            [s EXCEPT
                !.r = cnst.r,
                !.i = @ + 1,
                !.double_constants = @ + (IF cnst.v.tag \in {"Double", "Long"} THEN 1 ELSE 0),
                !.constants = IF cnst.r.st = "ok" THEN push_constant(@, cnst.v) ELSE @]
        entry(tag) == pushed(read_constant(tag.r, tag.v))
    IN IF s.r.st # "ok" \/ s.i >= s.count THEN s
       ELSE IF s.double_constants > s.count /\ build = "debug"
            THEN [s EXCEPT !.r = Fail(s.r, "overflow")]
       ELSE IF s.i >= (s.count - s.double_constants) % 65536 THEN s
       ELSE pool_loop(entry(read_kind(s.r, "u8")))

read_constant_pool(r) ==
    LET start(count) ==
            [r |-> count.r, count |-> count.v, i |-> 1, double_constants |-> 0,
             constants |-> <<Invalid>>]
        pool(s) == Res(s.constants, s.r)
    IN pool(pool_loop(start(read_kind(r, "u16"))))

(***************************************************************************)
(* writer.rs: write_constant_pool                                          *)
(***************************************************************************)
\* one arm of `match constant`
write_constant(w, cnst) ==
    CASE cnst.tag = "Utf8" ->
            write_all(write_kinds(w, <<"u8", "u16">>, <<1, Len(cnst.bytes)>>), cnst.bytes)
      [] cnst.tag = "Integer" -> write_kinds(w, <<"u8", "i32">>, <<3, cnst.value>>)
      [] cnst.tag = "Float" -> write_kinds(w, <<"u8", "b4">>, <<4, cnst.be>>)
      [] cnst.tag = "Long" -> write_kinds(w, <<"u8", "b8">>, <<5, cnst.be>>)
      [] cnst.tag = "Double" -> write_kinds(w, <<"u8", "b8">>, <<6, cnst.be>>)
      [] cnst.tag = "Class" -> write_kinds(w, <<"u8", "u16">>, <<7, cnst.name_index>>)
      [] cnst.tag = "String" -> write_kinds(w, <<"u8", "u16">>, <<8, cnst.string_index>>)
      [] cnst.tag = "Fieldref" ->
            write_kinds(w, <<"u8", "u16", "u16">>,
                         <<9, cnst.class_index, cnst.name_and_type_index>>)
      [] cnst.tag = "Methodref" ->
            write_kinds(w, <<"u8", "u16", "u16">>,
                         <<10, cnst.class_index, cnst.name_and_type_index>>)
      [] cnst.tag = "InterfaceMethodref" ->
            write_kinds(w, <<"u8", "u16", "u16">>,
                         <<11, cnst.class_index, cnst.name_and_type_index>>)
      [] cnst.tag = "NameAndType" ->
            write_kinds(w, <<"u8", "u16", "u16">>,
                         <<12, cnst.name_index, cnst.descriptor_index>>)
      [] cnst.tag = "MethodHandle" ->
            write_kinds(w, <<"u8", "u8", "u16">>,
                         <<15, cnst.reference_kind, cnst.reference_index>>)
      [] cnst.tag = "MethodType" ->
            write_kinds(w, <<"u8", "u16">>, <<16, cnst.descriptor_index>>)
      [] cnst.tag = "Dynamic" ->
            write_kinds(w, <<"u8", "u16", "u16">>,
                         <<17, cnst.bootstrap_method_attr_index, cnst.name_and_type_index>>)
      [] cnst.tag = "InvokeDynamic" ->
            write_kinds(w, <<"u8", "u16", "u16">>,
                         <<18, cnst.bootstrap_method_attr_index, cnst.name_and_type_index>>)
      [] cnst.tag = "Module" -> write_kinds(w, <<"u8", "u16">>, <<19, cnst.name_index>>)
      [] cnst.tag = "Package" -> write_kinds(w, <<"u8", "u16">>, <<20, cnst.name_index>>)
      [] cnst.tag = "Invalid" -> w

\* a slip: the count written is the number of entries that have bytes
write_constant_pool_entries(w, constants) ==
    WriteEach(write_constant,
              write_kind(w, "u16", Len(SelectSeq(constants, LAMBDA c : c.tag # "Invalid"))),
              constants)

write_constant_pool(w, constants) ==
    WriteEach(write_constant, write_kind(w, "u16", Len(constants)), constants)

(***************************************************************************)
(* u32 arithmetic on the i32 of the same bits                              *)
(***************************************************************************)
\* a <= b on u32
U32Le(a, b) == IF (a < 0) = (b < 0) THEN a <= b ELSE b < 0

\* a + 1 on u32, wrapping
U32Succ(a) == IF a = 2147483647 THEN -2147483647 - 1 ELSE a + 1

\* a u32 as a number of iterations or of bytes; from 2^30 on, 2^30: more
\* than a buffer holds
U32Num(a) == IF a < 0 \/ a >= 1073741824 THEN 1073741824 ELSE a

\* the number of iterations of `for _ in minimum..=maximum`; from 2^30 on,
\* 2^30: more than a buffer holds
RangeLen(minimum, maximum) ==
    IF ~U32Le(minimum, maximum) THEN 0
    ELSE IF (minimum < 0) # (maximum < 0) THEN 1073741824
    ELSE IF maximum - minimum >= 1073741823 THEN 1073741824
    ELSE maximum - minimum + 1

(***************************************************************************)
(* enums/instructions.rs: Instruction                                      *)
(***************************************************************************)
Inst(op, args) == [op |-> op, args |-> args]

TableSwitch(padding, minimum, maximum, jump_targets, default) ==
    [op |-> "TableSwitch", padding |-> padding, minimum |-> minimum,
     maximum |-> maximum, jump_targets |-> jump_targets, default |-> default]

LookupSwitch(padding, default, pairs) ==
    [op |-> "LookupSwitch", padding |-> padding, default |-> default, pairs |-> pairs]

LookupSwitchPair(value, target) == [value |-> value, target |-> target]

InvokeInterface(index, count) ==
    [op |-> "InvokeInterface", index |-> index, count |-> count]

(***************************************************************************)
(* reader.rs: decompile                                                    *)
(***************************************************************************)
\* decompile, `match opcode`: the arm of opcode k is entry k+1, as
\* <<variant, its literal arguments, the operands it reads from the cursor>>
\* (a u32 operand uses all 32 bits: "u32");
\* "-" marks the arms that do more, which decode_instruction spells out

DecodeArms ==
    <<<<"Nop", <<>>, <<>>>>, <<"ANull", <<>>, <<>>>>, <<"IConst", <<-1>>, <<>>>>,
      <<"IConst", <<0>>, <<>>>>, <<"IConst", <<1>>, <<>>>>, <<"IConst", <<2>>, <<>>>>,
      <<"IConst", <<3>>, <<>>>>, <<"IConst", <<4>>, <<>>>>, <<"IConst", <<5>>, <<>>>>,
      <<"LConst", <<0>>, <<>>>>, <<"LConst", <<1>>, <<>>>>, <<"FConst", <<0>>, <<>>>>,
      <<"FConst", <<1>>, <<>>>>, <<"FConst", <<2>>, <<>>>>, <<"DConst", <<0>>, <<>>>>,
      <<"DConst", <<1>>, <<>>>>, <<"Bipush", <<>>, <<"u8">>>>, <<"Sipush", <<>>, <<"i16">>>>,
      <<"Ldc", <<>>, <<"u8">>>>, <<"LdcW", <<>>, <<"u16">>>>, <<"Ldc2W", <<>>, <<"u16">>>>,
      <<"ILoad", <<>>, <<"u8">>>>, <<"LLoad", <<>>, <<"u8">>>>, <<"FLoad", <<>>, <<"u8">>>>,
      <<"DLoad", <<>>, <<"u8">>>>, <<"ALoad", <<>>, <<"u8">>>>, <<"ILoad", <<0>>, <<>>>>,
      <<"ILoad", <<1>>, <<>>>>, <<"ILoad", <<2>>, <<>>>>, <<"ILoad", <<3>>, <<>>>>,
      <<"LLoad", <<0>>, <<>>>>, <<"LLoad", <<1>>, <<>>>>, <<"LLoad", <<2>>, <<>>>>,
      <<"LLoad", <<3>>, <<>>>>, <<"FLoad", <<0>>, <<>>>>, <<"FLoad", <<1>>, <<>>>>,
      <<"FLoad", <<2>>, <<>>>>, <<"FLoad", <<3>>, <<>>>>, <<"DLoad", <<0>>, <<>>>>,
      <<"DLoad", <<1>>, <<>>>>, <<"DLoad", <<2>>, <<>>>>, <<"DLoad", <<3>>, <<>>>>,
      <<"ALoad", <<0>>, <<>>>>, <<"ALoad", <<1>>, <<>>>>, <<"ALoad", <<2>>, <<>>>>,
      <<"ALoad", <<3>>, <<>>>>, <<"IALoad", <<>>, <<>>>>, <<"LALoad", <<>>, <<>>>>,
      <<"FALoad", <<>>, <<>>>>, <<"DALoad", <<>>, <<>>>>, <<"AALoad", <<>>, <<>>>>,
      <<"BALoad", <<>>, <<>>>>, <<"CALoad", <<>>, <<>>>>, <<"SALoad", <<>>, <<>>>>,
      <<"IStore", <<>>, <<"u8">>>>, <<"LStore", <<>>, <<"u8">>>>, <<"FStore", <<>>, <<"u8">>>>,
      <<"DStore", <<>>, <<"u8">>>>, <<"AStore", <<>>, <<"u8">>>>, <<"IStore", <<0>>, <<>>>>,
      <<"IStore", <<1>>, <<>>>>, <<"IStore", <<2>>, <<>>>>, <<"IStore", <<3>>, <<>>>>,
      <<"LStore", <<0>>, <<>>>>, <<"LStore", <<1>>, <<>>>>, <<"LStore", <<2>>, <<>>>>,
      <<"LStore", <<3>>, <<>>>>, <<"FStore", <<0>>, <<>>>>, <<"FStore", <<1>>, <<>>>>,
      <<"FStore", <<2>>, <<>>>>, <<"FStore", <<3>>, <<>>>>, <<"DStore", <<0>>, <<>>>>,
      <<"DStore", <<1>>, <<>>>>, <<"DStore", <<2>>, <<>>>>, <<"DStore", <<3>>, <<>>>>,
      <<"AStore", <<0>>, <<>>>>, <<"AStore", <<1>>, <<>>>>, <<"AStore", <<2>>, <<>>>>,
      <<"AStore", <<3>>, <<>>>>, <<"IAStore", <<>>, <<>>>>, <<"LAStore", <<>>, <<>>>>,
      <<"FAStore", <<>>, <<>>>>, <<"DAStore", <<>>, <<>>>>, <<"AAStore", <<>>, <<>>>>,
      <<"BAStore", <<>>, <<>>>>, <<"CAStore", <<>>, <<>>>>, <<"SAStore", <<>>, <<>>>>,
      <<"Pop", <<>>, <<>>>>, <<"Pop2", <<>>, <<>>>>, <<"Dup", <<>>, <<>>>>,
      <<"DupX1", <<>>, <<>>>>, <<"DupX2", <<>>, <<>>>>, <<"Dup2", <<>>, <<>>>>,
      <<"Dup2X1", <<>>, <<>>>>, <<"Dup2X2", <<>>, <<>>>>, <<"Swap", <<>>, <<>>>>,
      <<"IAdd", <<>>, <<>>>>, <<"LAdd", <<>>, <<>>>>, <<"FAdd", <<>>, <<>>>>,
      <<"DAdd", <<>>, <<>>>>, <<"ISub", <<>>, <<>>>>, <<"LSub", <<>>, <<>>>>,
      <<"FSub", <<>>, <<>>>>, <<"DSub", <<>>, <<>>>>, <<"IMul", <<>>, <<>>>>,
      <<"LMul", <<>>, <<>>>>, <<"FMul", <<>>, <<>>>>, <<"DMul", <<>>, <<>>>>,
      <<"IDiv", <<>>, <<>>>>, <<"LDiv", <<>>, <<>>>>, <<"FDiv", <<>>, <<>>>>,
      <<"DDiv", <<>>, <<>>>>, <<"IRem", <<>>, <<>>>>, <<"LRem", <<>>, <<>>>>,
      <<"FRem", <<>>, <<>>>>, <<"DRem", <<>>, <<>>>>, <<"INeg", <<>>, <<>>>>,
      <<"LNeg", <<>>, <<>>>>, <<"FNeg", <<>>, <<>>>>, <<"DNeg", <<>>, <<>>>>,
      <<"IShl", <<>>, <<>>>>, <<"LShl", <<>>, <<>>>>, <<"IShr", <<>>, <<>>>>,
      <<"LShr", <<>>, <<>>>>, <<"IUShr", <<>>, <<>>>>, <<"LUShr", <<>>, <<>>>>,
      <<"IAnd", <<>>, <<>>>>, <<"LAnd", <<>>, <<>>>>, <<"IOr", <<>>, <<>>>>,
      <<"LOr", <<>>, <<>>>>, <<"IXor", <<>>, <<>>>>, <<"LXor", <<>>, <<>>>>,
      <<"-", <<>>, <<>>>>, <<"I2L", <<>>, <<>>>>, <<"I2F", <<>>, <<>>>>, <<"I2D", <<>>, <<>>>>,
      <<"L2I", <<>>, <<>>>>, <<"L2F", <<>>, <<>>>>, <<"L2D", <<>>, <<>>>>,
      <<"F2I", <<>>, <<>>>>, <<"F2L", <<>>, <<>>>>, <<"F2D", <<>>, <<>>>>,
      <<"D2I", <<>>, <<>>>>, <<"D2L", <<>>, <<>>>>, <<"D2F", <<>>, <<>>>>,
      <<"I2B", <<>>, <<>>>>, <<"I2C", <<>>, <<>>>>, <<"I2S", <<>>, <<>>>>,
      <<"LCmp", <<>>, <<>>>>, <<"FCmpl", <<>>, <<>>>>, <<"FCmpg", <<>>, <<>>>>,
      <<"DCmpl", <<>>, <<>>>>, <<"DCmpg", <<>>, <<>>>>, <<"Ifeq", <<>>, <<"i16">>>>,
      <<"Ifne", <<>>, <<"i16">>>>, <<"Iflt", <<>>, <<"i16">>>>, <<"Ifge", <<>>, <<"i16">>>>,
      <<"Ifgt", <<>>, <<"i16">>>>, <<"Ifle", <<>>, <<"i16">>>>,
      <<"IfIcmpeq", <<>>, <<"i16">>>>, <<"IfIcmpne", <<>>, <<"i16">>>>,
      <<"IfIcmplt", <<>>, <<"i16">>>>, <<"IfIcmpge", <<>>, <<"i16">>>>,
      <<"IfIcmpgt", <<>>, <<"i16">>>>, <<"IfIcmple", <<>>, <<"i16">>>>,
      <<"IfAcmpeq", <<>>, <<"i16">>>>, <<"IfAcmpne", <<>>, <<"i16">>>>,
      <<"Goto", <<>>, <<"i16">>>>, <<"Jsr", <<>>, <<"i16">>>>, <<"Ret", <<>>, <<"u8">>>>,
      <<"-", <<>>, <<>>>>, <<"-", <<>>, <<>>>>, <<"IReturn", <<>>, <<>>>>,
      <<"LReturn", <<>>, <<>>>>, <<"FReturn", <<>>, <<>>>>, <<"DReturn", <<>>, <<>>>>,
      <<"AReturn", <<>>, <<>>>>, <<"Return", <<>>, <<>>>>, <<"GetStatic", <<>>, <<"u16">>>>,
      <<"PutStatic", <<>>, <<"u16">>>>, <<"GetField", <<>>, <<"u16">>>>,
      <<"PutField", <<>>, <<"u16">>>>, <<"InvokeVirtual", <<>>, <<"u16">>>>,
      <<"InvokeSpecial", <<>>, <<"u16">>>>, <<"InvokeStatic", <<>>, <<"u16">>>>,
      <<"-", <<>>, <<>>>>, <<"-", <<>>, <<>>>>, <<"New", <<>>, <<"u16">>>>,
      <<"NewArray", <<>>, <<"u8">>>>, <<"ANewArray", <<>>, <<"u16">>>>,
      <<"ArrayLength", <<>>, <<>>>>, <<"AThrow", <<>>, <<>>>>,
      <<"CheckCast", <<>>, <<"u16">>>>, <<"InstanceOf", <<>>, <<"u16">>>>,
      <<"MonitorEnter", <<>>, <<>>>>, <<"MonitorExit", <<>>, <<>>>>, <<"-", <<>>, <<>>>>,
      <<"MultiANewArray", <<>>, <<"u16", "u8">>>>, <<"IfNull", <<>>, <<"u16">>>>,
      <<"IfNonNull", <<>>, <<"u16">>>>, <<"GotoW", <<>>, <<"u32">>>>,
      <<"JsrW", <<>>, <<"u32">>>>>>

\* the state of the loop of decompile after an instruction: the cursor over
\* the code, the reader the code came from, instructions
Step(s, inst, cursor, r) ==
    [s EXCEPT !.cursor = cursor, !.r = r, !.instructions = Append(@, inst)]

\* 0xAA
decode_tableswitch(s, cursor) ==
    LET offset == (4 - (cursor.pos % 4)) % 4
        \* assert_eq!(jump_targets.len() as u32, maximum - minimum + 1)
        asserted(minimum, maximum, after) ==
            IF after.st # "ok" \/ U32Le(minimum, maximum) THEN after
            ELSE IF build = "debug" THEN Fail(after, "overflow")
            ELSE IF U32Succ(maximum) = minimum THEN after
            ELSE Fail(after, "panic")
        switch(head, jump_targets) ==
            Step(s, TableSwitch(offset, head.v[2], head.v[3], jump_targets.v, head.v[1]),
                 asserted(head.v[2], head.v[3], jump_targets.r), s.r)
        targets(head) ==
            switch(head, read_repeat(head.r, RangeLen(head.v[2], head.v[3]), "u32"))
    IN targets(read_kinds(seek_current(cursor, offset), <<"u32", "u32", "u32">>))

\* 0xAB: (offset as u64 - pos) as u32, and how the subtraction ends; a
\* negative difference is the i32 of the bits of the wrapped u64, cast
lookupswitch_padding(offset, pos) ==
    IF offset < pos /\ build = "debug" THEN Res(0, "overflow") ELSE Res(offset - pos, "ok")

decode_lookupswitch(s, cursor) ==
    LET offset == (4 - (cursor.pos % 4)) % 4
        switch(padding, head, words) ==
            Step(s, LookupSwitch(padding.v, head.v[1],
                                 [k \in 1..(Len(words.v) \div 2) |->
                                     LookupSwitchPair(words.v[2 * k - 1], words.v[2 * k])]),
                 words.r, s.r)
        pairs(padding, head) ==
            switch(padding, head,
                   read_repeat(head.r, 2 * Min(U32Num(head.v[2]), 536870912), "u32"))
        sought(padding) ==
            pairs(padding,
                  read_kinds(seek_current(IF padding.r = "ok" THEN cursor
                                           ELSE Fail(cursor, padding.r), offset),
                              <<"u32", "u32">>))
    IN sought(lookupswitch_padding(offset, cursor.pos))

\* 0xC4: the arms of the inner `match opcode` other than 0x84
WideDecodeArms ==
    <<<<21, "ILoadW">>, <<22, "LLoadW">>, <<23, "FLoadW">>, <<24, "DLoadW">>,
      <<25, "ALoadW">>, <<54, "IStoreW">>, <<55, "LStoreW">>, <<56, "FStoreW">>,
      <<57, "DStoreW">>, <<58, "AStoreW">>, <<169, "RetW">>>>

decode_wide(s, cursor) ==
    LET iinc(head, count) == Step(s, Inst("IIncW", <<head.v[2], count.v>>), count.r, s.r)
        wide(head, arms) ==
            IF head.v[1] = 132 THEN iinc(head, read_kind(head.r, "u16"))
            ELSE IF arms # <<>> THEN Step(s, Inst(arms[1][2], <<head.v[2]>>), head.r, s.r)
            ELSE Step(s, Inst("Nop", <<>>), Fail(head.r, "panic"), s.r)
        opcode(head) == wide(head, SelectSeq(WideDecodeArms, LAMBDA arm : arm[1] = head.v[1]))
    IN opcode(read_kinds(cursor, <<"u8", "u16">>))

\* one arm of `match opcode`: the state of the loop after it
decode_instruction(s, opcode, cursor) ==
    LET iinc(f) == Step(s, Inst("IInc", f.v), cursor, f.r)
        invokeinterface(f) == Step(s, InvokeInterface(f.v[1], f.v[2]), f.r, s.r)
        invokedynamic(f) ==
            Step(s, Inst("InvokeDynamic", <<f.v[1]>>),
                 IF f.v[2] # 0 THEN Fail(f.r, "panic") ELSE f.r, s.r)
        plain(arm, operands) == Step(s, Inst(arm[1], arm[2] \o operands.v), operands.r, s.r)
        operands(arm) == plain(arm, read_kinds(cursor, arm[3]))
    IN CASE opcode = 132 -> iinc(read_kinds(s.r, <<"u8", "i8">>))
         [] opcode = 170 -> decode_tableswitch(s, cursor)
         [] opcode = 171 -> decode_lookupswitch(s, cursor)
         [] opcode = 185 -> invokeinterface(read_kinds(cursor, <<"u16", "u8">>))
         [] opcode = 186 -> invokedynamic(read_kinds(cursor, <<"u16", "u16">>))
         [] opcode = 196 -> decode_wide(s, cursor)
         [] opcode > 201 -> Step(s, Inst("Nop", <<>>), Fail(cursor, "panic"), s.r)
         [] OTHER -> operands(DecodeArms[opcode + 1])

\* while cursor.seek(SeekFrom::Current(0))? < code_length { ... }; s holds
\* the cursor, the reader, code_length and instructions
RECURSIVE decompile_loop(_)
decompile_loop(s) ==
    LET instruction(opcode) == decode_instruction(s, opcode.v, opcode.r) IN
    IF s.r.st # "ok" \/ s.cursor.st # "ok" \/ s.cursor.pos >= s.code_length THEN s
    ELSE decompile_loop(instruction(read_kind(s.cursor, "u8")))

decompile(r) ==
    LET start(code_length, code) ==
            [cursor |-> NewReader(code.v), r |-> code.r, code_length |-> code_length.v,
             instructions |-> <<>>]
        code(code_length) == start(code_length, read_buf(code_length.r, code_length.v))
        instructions(s) ==
            IF s.r.st = "ok" /\ s.cursor.st = "ok" THEN Res(s.instructions, s.r)
            ELSE Res(<<>>, Fail(s.r, s.cursor.st))
    IN instructions(decompile_loop(code(read_kind(r, "u32"))))

(***************************************************************************)
(* writer.rs: compile                                                      *)
(***************************************************************************)
\* compile, `match inst`: the arm of a variant, as <<variant, the opcodes of
\* the values of its argument that have one of their own, the opcode otherwise
\* (-1: unreachable!()), the operands it writes>>

EncodeArms ==
    <<<<"Nop", <<>>, 0, <<>>>>, <<"ANull", <<>>, 1, <<>>>>,
      <<"IConst", <<<<-1, 2>>, <<0, 3>>, <<1, 4>>, <<2, 5>>, <<3, 6>>, <<4, 7>>, <<5, 8>>>>, -1, <<>>>>,
      <<"LConst", <<<<0, 9>>, <<1, 10>>>>, -1, <<>>>>,
      <<"FConst", <<<<0, 11>>, <<1, 12>>, <<2, 13>>>>, -1, <<>>>>,
      <<"DConst", <<<<0, 14>>, <<1, 15>>>>, -1, <<>>>>, <<"Bipush", <<>>, 16, <<"u8">>>>,
      <<"Sipush", <<>>, 17, <<"i16">>>>, <<"Ldc", <<>>, 18, <<"u8">>>>,
      <<"LdcW", <<>>, 19, <<"u16">>>>, <<"Ldc2W", <<>>, 20, <<"u16">>>>,
      <<"ILoad", <<<<0, 26>>, <<1, 27>>, <<2, 28>>, <<3, 29>>>>, 21, <<"u8">>>>,
      <<"LLoad", <<<<0, 30>>, <<1, 31>>, <<2, 32>>, <<3, 33>>>>, 22, <<"u8">>>>,
      <<"FLoad", <<<<0, 34>>, <<1, 35>>, <<2, 36>>, <<3, 37>>>>, 23, <<"u8">>>>,
      <<"DLoad", <<<<0, 38>>, <<1, 39>>, <<2, 40>>, <<3, 41>>>>, 24, <<"u8">>>>,
      <<"ALoad", <<<<0, 42>>, <<1, 43>>, <<2, 44>>, <<3, 45>>>>, 25, <<"u8">>>>,
      <<"IALoad", <<>>, 46, <<>>>>, <<"LALoad", <<>>, 47, <<>>>>, <<"FALoad", <<>>, 48, <<>>>>,
      <<"DALoad", <<>>, 49, <<>>>>, <<"AALoad", <<>>, 50, <<>>>>, <<"BALoad", <<>>, 51, <<>>>>,
      <<"CALoad", <<>>, 52, <<>>>>, <<"SALoad", <<>>, 53, <<>>>>,
      <<"IStore", <<<<0, 59>>, <<1, 60>>, <<2, 61>>, <<3, 62>>>>, 54, <<"u8">>>>,
      <<"LStore", <<<<0, 63>>, <<1, 64>>, <<2, 65>>, <<3, 66>>>>, 55, <<"u8">>>>,
      <<"FStore", <<<<0, 67>>, <<1, 68>>, <<2, 69>>, <<3, 70>>>>, 56, <<"u8">>>>,
      <<"DStore", <<<<0, 71>>, <<1, 72>>, <<2, 73>>, <<3, 74>>>>, 57, <<"u8">>>>,
      <<"AStore", <<<<0, 75>>, <<1, 76>>, <<2, 77>>, <<3, 78>>>>, 58, <<"u8">>>>,
      <<"IAStore", <<>>, 79, <<>>>>, <<"LAStore", <<>>, 80, <<>>>>,
      <<"FAStore", <<>>, 81, <<>>>>, <<"DAStore", <<>>, 82, <<>>>>,
      <<"AAStore", <<>>, 83, <<>>>>, <<"BAStore", <<>>, 84, <<>>>>,
      <<"CAStore", <<>>, 85, <<>>>>, <<"SAStore", <<>>, 86, <<>>>>, <<"Pop", <<>>, 87, <<>>>>,
      <<"Pop2", <<>>, 88, <<>>>>, <<"Dup", <<>>, 89, <<>>>>, <<"DupX1", <<>>, 90, <<>>>>,
      <<"DupX2", <<>>, 91, <<>>>>, <<"Dup2", <<>>, 92, <<>>>>, <<"Dup2X1", <<>>, 93, <<>>>>,
      <<"Dup2X2", <<>>, 94, <<>>>>, <<"Swap", <<>>, 95, <<>>>>, <<"IAdd", <<>>, 96, <<>>>>,
      <<"LAdd", <<>>, 97, <<>>>>, <<"FAdd", <<>>, 98, <<>>>>, <<"DAdd", <<>>, 99, <<>>>>,
      <<"ISub", <<>>, 100, <<>>>>, <<"LSub", <<>>, 101, <<>>>>, <<"FSub", <<>>, 102, <<>>>>,
      <<"DSub", <<>>, 103, <<>>>>, <<"IMul", <<>>, 104, <<>>>>, <<"LMul", <<>>, 105, <<>>>>,
      <<"FMul", <<>>, 106, <<>>>>, <<"DMul", <<>>, 107, <<>>>>, <<"IDiv", <<>>, 108, <<>>>>,
      <<"LDiv", <<>>, 109, <<>>>>, <<"FDiv", <<>>, 110, <<>>>>, <<"DDiv", <<>>, 111, <<>>>>,
      <<"IRem", <<>>, 112, <<>>>>, <<"LRem", <<>>, 113, <<>>>>, <<"FRem", <<>>, 114, <<>>>>,
      <<"DRem", <<>>, 115, <<>>>>, <<"INeg", <<>>, 116, <<>>>>, <<"LNeg", <<>>, 117, <<>>>>,
      <<"FNeg", <<>>, 118, <<>>>>, <<"DNeg", <<>>, 119, <<>>>>, <<"IShl", <<>>, 120, <<>>>>,
      <<"LShl", <<>>, 121, <<>>>>, <<"IShr", <<>>, 122, <<>>>>, <<"LShr", <<>>, 123, <<>>>>,
      <<"IUShr", <<>>, 124, <<>>>>, <<"LUShr", <<>>, 125, <<>>>>, <<"IAnd", <<>>, 126, <<>>>>,
      <<"LAnd", <<>>, 127, <<>>>>, <<"IOr", <<>>, 128, <<>>>>, <<"LOr", <<>>, 129, <<>>>>,
      <<"IXor", <<>>, 130, <<>>>>, <<"LXor", <<>>, 131, <<>>>>,
      <<"IInc", <<>>, 132, <<"u8", "i8">>>>, <<"I2L", <<>>, 133, <<>>>>,
      <<"I2F", <<>>, 134, <<>>>>, <<"I2D", <<>>, 135, <<>>>>, <<"L2I", <<>>, 136, <<>>>>,
      <<"L2F", <<>>, 137, <<>>>>, <<"L2D", <<>>, 138, <<>>>>, <<"F2I", <<>>, 139, <<>>>>,
      <<"F2L", <<>>, 140, <<>>>>, <<"F2D", <<>>, 141, <<>>>>, <<"D2I", <<>>, 142, <<>>>>,
      <<"D2L", <<>>, 143, <<>>>>, <<"D2F", <<>>, 144, <<>>>>, <<"I2B", <<>>, 145, <<>>>>,
      <<"I2C", <<>>, 146, <<>>>>, <<"I2S", <<>>, 147, <<>>>>, <<"LCmp", <<>>, 148, <<>>>>,
      <<"FCmpl", <<>>, 149, <<>>>>, <<"FCmpg", <<>>, 150, <<>>>>, <<"DCmpl", <<>>, 151, <<>>>>,
      <<"DCmpg", <<>>, 152, <<>>>>, <<"Ifeq", <<>>, 153, <<"i16">>>>,
      <<"Ifne", <<>>, 154, <<"i16">>>>, <<"Iflt", <<>>, 155, <<"i16">>>>,
      <<"Ifge", <<>>, 156, <<"i16">>>>, <<"Ifgt", <<>>, 157, <<"i16">>>>,
      <<"Ifle", <<>>, 158, <<"i16">>>>, <<"IfIcmpeq", <<>>, 159, <<"i16">>>>,
      <<"IfIcmpne", <<>>, 160, <<"i16">>>>, <<"IfIcmplt", <<>>, 161, <<"i16">>>>,
      <<"IfIcmpge", <<>>, 162, <<"i16">>>>, <<"IfIcmpgt", <<>>, 163, <<"i16">>>>,
      <<"IfIcmple", <<>>, 164, <<"i16">>>>, <<"IfAcmpeq", <<>>, 165, <<"i16">>>>,
      <<"IfAcmpne", <<>>, 166, <<"i16">>>>, <<"Goto", <<>>, 167, <<"i16">>>>,
      <<"Jsr", <<>>, 168, <<"i16">>>>, <<"IReturn", <<>>, 172, <<>>>>,
      <<"LReturn", <<>>, 173, <<>>>>, <<"FReturn", <<>>, 174, <<>>>>,
      <<"DReturn", <<>>, 175, <<>>>>, <<"AReturn", <<>>, 176, <<>>>>,
      <<"Return", <<>>, 177, <<>>>>, <<"GetStatic", <<>>, 178, <<"u16">>>>,
      <<"PutStatic", <<>>, 179, <<"u16">>>>, <<"GetField", <<>>, 180, <<"u16">>>>,
      <<"PutField", <<>>, 181, <<"u16">>>>, <<"InvokeVirtual", <<>>, 182, <<"u16">>>>,
      <<"InvokeSpecial", <<>>, 183, <<"u16">>>>, <<"InvokeStatic", <<>>, 184, <<"u16">>>>,
      <<"New", <<>>, 187, <<"u16">>>>, <<"NewArray", <<>>, 188, <<"u8">>>>,
      <<"ANewArray", <<>>, 189, <<"u16">>>>, <<"ArrayLength", <<>>, 190, <<>>>>,
      <<"AThrow", <<>>, 191, <<>>>>, <<"CheckCast", <<>>, 192, <<"u16">>>>,
      <<"InstanceOf", <<>>, 193, <<"u16">>>>, <<"MonitorEnter", <<>>, 194, <<>>>>,
      <<"MonitorExit", <<>>, 195, <<>>>>, <<"MultiANewArray", <<>>, 197, <<"u16", "u8">>>>,
      <<"IfNull", <<>>, 198, <<"u16">>>>, <<"IfNonNull", <<>>, 199, <<"u16">>>>,
      <<"GotoW", <<>>, 200, <<"u32">>>>, <<"JsrW", <<>>, 201, <<"u32">>>>>>

\* for _ in 0..*padding { w.write_u8(0)?; }  Zero bytes by the gigabyte are
\* not written out: the writer is taken to run out of memory
write_padding(w, padding) ==
    IF U32Num(padding) >= 1073741824 THEN Fail(w, "oom")
    ELSE write_all(w, Zeros(padding))

\* the arm `_ => { // 0xC4`: the arms of `match inst` other than IIncW
WideEncodeArms ==
    <<<<"ILoadW", 21>>, <<"LLoadW", 22>>, <<"FLoadW", 23>>, <<"DLoadW", 24>>,
      <<"ALoadW", 25>>, <<"IStoreW", 54>>, <<"LStoreW", 55>>, <<"FStoreW", 56>>,
      <<"DStoreW", 57>>, <<"AStoreW", 58>>, <<"RetW", 169>>>>

compile_wide(w, inst) ==
    LET prefixed == write_kind(w, "u8", 201)
        arms == SelectSeq(WideEncodeArms, LAMBDA arm : arm[1] = inst.op)
    IN IF inst.op = "IIncW"
       THEN write_kinds(prefixed, <<"u8", "u16", "u16">>, <<132>> \o inst.args)
       ELSE IF arms # <<>>
            THEN write_kinds(prefixed, <<"u8", "u16">>, <<arms[1][2]>> \o inst.args)
       ELSE Fail(prefixed, "panic")

\* a slip: no value of the argument has an opcode of its own
own_opcode_none(arm, inst) == <<>>

\* `match index { 0 => ..., 1 => ..., _ => ... }`: the opcode the value of the
\* argument has of its own, if it has one
own_opcode(arm, inst) == SelectSeq(arm[2], LAMBDA e : e[1] = inst.args[1])

\* one arm of `match inst`
compile_instruction(w, inst) ==
    LET plain(arm, own) ==
            IF own # <<>> THEN write_kind(w, "u8", own[1][2])
            ELSE IF arm[3] = -1 THEN Fail(w, "panic")
            ELSE write_kinds(w, <<"u8">> \o arm[4], <<arm[3]>> \o inst.args)
        encode(arms) ==
            IF arms = <<>> THEN compile_wide(w, inst)
            ELSE plain(arms[1], own_opcode(arms[1], inst))
    IN CASE inst.op = "TableSwitch" ->
            write_kinds(write_padding(write_kind(w, "u8", 169), inst.padding),
                         [k \in 1..(3 + Len(inst.jump_targets)) |-> "u32"],
                         <<inst.default, inst.minimum, inst.maximum>> \o inst.jump_targets)
         [] inst.op = "LookupSwitch" ->
            write_kinds(write_padding(write_kind(w, "u8", 171), inst.padding),
                         [k \in 1..(2 + 2 * Len(inst.pairs)) |-> "u32"],
                         <<inst.default, Len(inst.pairs)>>
                         \o Concat([k \in 1..Len(inst.pairs) |->
                                       <<inst.pairs[k].value, inst.pairs[k].target>>]))
         [] inst.op = "InvokeInterface" ->
            write_kinds(w, <<"u8", "u16", "u8">>, <<185, inst.index, inst.count>>)
         [] inst.op = "InvokeDynamic" ->
            write_kinds(w, <<"u8", "u16", "u16">>, <<186, inst.args[1], 0>>)
         [] OTHER -> encode(SelectSeq(EncodeArms, LAMBDA arm : arm[1] = inst.op))

\* a slip: no seek back to code_end after the length is written
compile_stays(w, code) ==
    LET body == WriteEach(compile_instruction, write_kind(w, "u32", 0), code)
    IN write_kind(seek_start(body, w.pos), "u32", body.pos - w.pos - 4)

compile(w, code) ==
    LET \* code_len = code_end - code_start - 4, written at code_start
        patched(body) ==
            seek_start(write_kind(seek_start(body, w.pos), "u32", body.pos - w.pos - 4),
                       body.pos)
    IN patched(WriteEach(compile_instruction, write_kind(w, "u32", 0), code))

(***************************************************************************)
(* enums/instructions.rs: Instruction::size                                *)
(***************************************************************************)
\* Instruction::size, the arms with a literal size, as <<variants, size>>
SizeArms ==
    <<<<{"AALoad", "AAStore", "ANull", "AReturn", "ArrayLength", "AThrow", "BALoad", "BAStore",
        "CALoad", "CAStore", "D2F", "D2I", "D2L", "DAdd", "DALoad", "DAStore", "DCmpg",
        "DCmpl", "DConst", "DDiv", "DMul", "DNeg", "DRem", "DReturn", "DSub", "Dup", "Dup2",
        "Dup2X1", "Dup2X2", "DupX1", "DupX2", "F2D", "F2I", "F2L", "FAdd", "FALoad", "FAStore",
        "FCmpg", "FCmpl", "FConst", "FDiv", "FMul", "FNeg", "FRem", "FReturn", "FSub", "I2B",
        "I2C", "I2D", "I2F", "I2L", "I2S", "IAdd", "IALoad", "IAnd", "IAStore", "IConst",
        "IDiv", "IMul", "INeg", "IOr", "IRem", "IReturn", "IShl", "IShr", "ISub", "IUShr",
        "IXor", "L2D", "L2F", "L2I", "LAdd", "LALoad", "LAnd", "LAStore", "LCmp", "LConst",
        "LDiv", "LMul", "LNeg", "LOr", "LRem", "LReturn", "LShl", "LShr", "LSub", "LUShr",
        "LXor", "MonitorEnter", "MonitorExit", "Nop", "Pop", "Pop2", "Return", "SALoad",
        "SAStore", "Swap"},
        1>>,
      <<{"Bipush", "Ldc", "NewArray", "Ret"},
        2>>,
      <<{"ANewArray", "CheckCast", "GetField", "GetStatic", "Goto", "IfAcmpeq", "IfAcmpne",
        "Ifeq", "Ifge", "Ifgt", "IfIcmpeq", "IfIcmpge", "IfIcmpgt", "IfIcmple", "IfIcmplt",
        "IfIcmpne", "Ifle", "Iflt", "Ifne", "IfNonNull", "IfNull", "IInc", "InstanceOf",
        "InvokeSpecial", "InvokeStatic", "InvokeVirtual", "Jsr", "Ldc2W", "LdcW", "New",
        "PutField", "PutStatic", "Sipush"},
        3>>,
      <<{"ALoadW", "AStoreW", "DLoadW", "DStoreW", "FLoadW", "FStoreW", "ILoadW",
        "InvokeInterface", "IStoreW", "LLoadW", "LStoreW", "MultiANewArray", "RetW"},
        4>>,
      <<{"GotoW", "InvokeDynamic", "JsrW"},
        5>>,
      <<{"IIncW"},
        6>>>>

\* and the arms of the loads and the stores, whose size depends on the index
SizeByIndex ==
    {"ALoad", "DLoad", "FLoad", "ILoad", "LLoad", "AStore", "DStore", "FStore", "IStore",
     "LStore"}

\* 1 + padding + rest on u32, rest small: the sum, wrapped, and how the
\* additions end
SizeSum(padding, rest) ==
    Res(IF padding > 2147483647 - rest
        THEN (padding - 2147483647 - 1) + (rest - 2147483647 - 1)
        ELSE padding + rest,
        IF padding < 0 /\ padding + rest >= 0 /\ build = "debug" THEN "overflow" ELSE "ok")

\* the u32 and "ok", or "overflow"
size(inst) ==
    CASE inst.op = "LookupSwitch" -> SizeSum(inst.padding, 1 + 8 + Len(inst.pairs) * 8)
      [] inst.op = "TableSwitch" -> SizeSum(inst.padding, 1 + 12 + Len(inst.jump_targets))
      [] inst.op \in SizeByIndex -> Res(IF inst.args[1] < 4 THEN 1 ELSE 2, "ok")
      [] OTHER ->
            LET k == CHOOSE k \in 1..Len(SizeArms) : inst.op \in SizeArms[k][1] IN
            Res(SizeArms[k][2], "ok")
(***************************************************************************)
(* lib.rs: JVMClass.  A String is kept as its bytes.                       *)
(***************************************************************************)
\* str::as_bytes of the string literals
Ascii(s) ==
    CASE s = "ConstantValue" -> <<67, 111, 110, 115, 116, 97, 110, 116, 86, 97, 108, 117, 101>>
      [] s = "Code" -> <<67, 111, 100, 101>>
      [] s = "Exceptions" -> <<69, 120, 99, 101, 112, 116, 105, 111, 110, 115>>
      [] s = "InnerClasses" -> <<73, 110, 110, 101, 114, 67, 108, 97, 115, 115, 101, 115>>
      [] s = "EnclosingMethod" ->
            <<69, 110, 99, 108, 111, 115, 105, 110, 103, 77, 101, 116, 104, 111, 100>>
      [] s = "Synthetic" -> <<83, 121, 110, 116, 104, 101, 116, 105, 99>>
      [] s = "Signature" -> <<83, 105, 103, 110, 97, 116, 117, 114, 101>>
      [] s = "SourceFile" -> <<83, 111, 117, 114, 99, 101, 70, 105, 108, 101>>
      [] s = "SourceDebugExtension" ->
            <<83, 111, 117, 114, 99, 101, 68, 101, 98, 117, 103, 69, 120, 116, 101, 110,
              115, 105, 111, 110>>
      [] s = "LineNumberTable" ->
            <<76, 105, 110, 101, 78, 117, 109, 98, 101, 114, 84, 97, 98, 108, 101>>
      [] s = "LocalVariableTable" ->
            <<76, 111, 99, 97, 108, 86, 97, 114, 105, 97, 98, 108, 101, 84, 97, 98,
              108, 101>>
      [] s = "LocalVariableTypeTable" ->
            <<76, 111, 99, 97, 108, 86, 97, 114, 105, 97, 98, 108, 101, 84, 121, 112,
              101, 84, 97, 98, 108, 101>>
      [] s = "Deprecated" -> <<68, 101, 112, 114, 101, 99, 97, 116, 101, 100>>
      [] s = "BootstrapMethods" ->
            <<66, 111, 111, 116, 115, 116, 114, 97, 112, 77, 101, 116, 104, 111, 100, 115>>
      [] s = "MethodParameters" ->
            <<77, 101, 116, 104, 111, 100, 80, 97, 114, 97, 109, 101, 116, 101, 114, 115>>
      [] s = "Module" -> <<77, 111, 100, 117, 108, 101>>
      [] s = "ModuleMainClass" ->
            <<77, 111, 100, 117, 108, 101, 77, 97, 105, 110, 67, 108, 97, 115, 115>>
      [] s = "ModulePackages" -> <<77, 111, 100, 117, 108, 101, 80, 97, 99, 107, 97, 103, 101, 115>>
      [] s = "NestHost" -> <<78, 101, 115, 116, 72, 111, 115, 116>>
      [] s = "NestMembers" -> <<78, 101, 115, 116, 77, 101, 109, 98, 101, 114, 115>>
      [] s = "PermittedSubclasses" ->
            <<80, 101, 114, 109, 105, 116, 116, 101, 100, 83, 117, 98, 99, 108, 97, 115,
              115, 101, 115>>
      [] s = "Record" -> <<82, 101, 99, 111, 114, 100>>
      [] s = "StackMapTable" -> <<83, 116, 97, 99, 107, 77, 97, 112, 84, 97, 98, 108, 101>>
      [] s = "RuntimeVisibleAnnotations" ->
            <<82, 117, 110, 116, 105, 109, 101, 86, 105, 115, 105, 98, 108, 101, 65, 110,
              110, 111, 116, 97, 116, 105, 111, 110, 115>>
      [] s = "RuntimeInvisibleAnnotations" ->
            <<82, 117, 110, 116, 105, 109, 101, 73, 110, 118, 105, 115, 105, 98, 108, 101,
              65, 110, 110, 111, 116, 97, 116, 105, 111, 110, 115>>
      [] s = "RuntimeVisibleParameterAnnotations" ->
            <<82, 117, 110, 116, 105, 109, 101, 86, 105, 115, 105, 98, 108, 101, 80, 97,
              114, 97, 109, 101, 116, 101, 114, 65, 110, 110, 111, 116, 97, 116, 105, 111,
              110, 115>>
      [] s = "RuntimeInvisibleParameterAnnotations" ->
            <<82, 117, 110, 116, 105, 109, 101, 73, 110, 118, 105, 115, 105, 98, 108, 101,
              80, 97, 114, 97, 109, 101, 116, 101, 114, 65, 110, 110, 111, 116, 97, 116,
              105, 111, 110, 115>>
      [] s = "AnnotationDefault" ->
            <<65, 110, 110, 111, 116, 97, 116, 105, 111, 110, 68, 101, 102, 97, 117, 108,
              116>>
      [] s = "RuntimeVisibleTypeAnnotations" ->
            <<82, 117, 110, 116, 105, 109, 101, 86, 105, 115, 105, 98, 108, 101, 84, 121,
              112, 101, 65, 110, 110, 111, 116, 97, 116, 105, 111, 110, 115>>
      [] s = "RuntimeInvisibleTypeAnnotations" ->
            <<82, 117, 110, 116, 105, 109, 101, 73, 110, 118, 105, 115, 105, 98, 108, 101,
              84, 121, 112, 101, 65, 110, 110, 111, 116, 97, 116, 105, 111, 110, 115>>
      [] s = "java/lang/" -> <<106, 97, 118, 97, 47, 108, 97, 110, 103, 47>>
      [] s = "java/lang/Object" ->
            <<106, 97, 118, 97, 47, 108, 97, 110, 103, 47, 79, 98, 106, 101, 99, 116>>
      [] s = "java/lang/X" -> <<106, 97, 118, 97, 47, 108, 97, 110, 103, 47, 88>>
      [] s = "Empty" -> <<69, 109, 112, 116, 121>>
      [] s = "X" -> <<88>>
      [] s = "m" -> <<109>>
      [] s = "()V" -> <<40, 41, 86>>
      [] s = "" -> <<>>

\* JVMClass::new()
JVMClassNew ==
    [major |-> 0, minor |-> 0, access_flags |-> <<>>, this_class |-> 0, super_class |-> 0,
     constants |-> <<>>, interfaces |-> <<>>, fields |-> <<>>, methods |-> <<>>,
     attributes |-> <<>>]

\* a slip: the name of a class is returned as it is
RECURSIVE get_string_whole(_, _, _)
get_string_whole(constants, id, depth) ==
    IF id >= Len(constants) THEN Res(id, "InvalidConstantId")
    ELSE IF depth > Len(constants) THEN Res(<<>>, "abort")
    ELSE CASE constants[id + 1].tag = "Class" ->
                 get_string_whole(constants, constants[id + 1].name_index, depth + 1)
           [] constants[id + 1].tag = "Utf8" -> Res(constants[id + 1].bytes, "ok")
           [] constants[id + 1].tag = "String" ->
                 get_string_whole(constants, constants[id + 1].string_index, depth + 1)
           [] OTHER -> Res(<<>>, "ConstantTypeError")

\* Ok(string) as the string and "ok"; Err(JavaError::InvalidConstantId(id)) as
\* the id and "InvalidConstantId"; Err(JavaError::ConstantTypeError(..)) as
\* "ConstantTypeError".  A call nested deeper than the pool is long has met a
\* constant twice and never returns: the stack runs out and the process is
\* ended, "abort"
RECURSIVE get_string(_, _, _)
get_string(constants, id, depth) ==
    LET class(cname) ==
            IF /\ cname.r = "ok"
               /\ Len(cname.v) >= 10
               /\ SubSeq(cname.v, 1, 10) = Ascii("java/lang/")
            THEN Res(SubSeq(cname.v, 11, Len(cname.v)), "ok")
            ELSE cname
    IN IF id >= Len(constants) THEN Res(id, "InvalidConstantId")
       ELSE IF depth > Len(constants) THEN Res(<<>>, "abort")
       ELSE CASE constants[id + 1].tag = "Class" ->
                    class(get_string(constants, constants[id + 1].name_index, depth + 1))
              [] constants[id + 1].tag = "Utf8" -> Res(constants[id + 1].bytes, "ok")
              [] constants[id + 1].tag = "String" ->
                    get_string(constants, constants[id + 1].string_index, depth + 1)
              [] OTHER -> Res(<<>>, "ConstantTypeError")

\* a slip: the index counts from one
get_string_index_from_one(constants, string) ==
    LET found ==
            {i \in 1..Len(constants) :
                constants[i].tag = "Utf8" /\ constants[i].bytes = string}
    IN IF found = {} THEN Res(0, "StringNotFound")
       ELSE Res(CHOOSE i \in found : \A j \in found : i <= j, "ok")

\* Ok(index) of the first Utf8 that is the string, as the index and "ok";
\* Err(JavaError::StringNotFound) as "StringNotFound"
get_string_index(constants, string) ==
    LET found ==
            {i \in 1..Len(constants) :
                constants[i].tag = "Utf8" /\ constants[i].bytes = string}
    IN IF found = {} THEN Res(0, "StringNotFound")
       ELSE Res((CHOOSE i \in found : \A j \in found : i <= j) - 1, "ok")

(***************************************************************************)
(* reader.rs: loops and sequences of reads.  s is Res(what was read so     *)
(* far, the reader)                                                        *)
(***************************************************************************)
\* for _ in 0..n { Body }
RECURSIVE Repeat(_, _, _)
Repeat(Body(_), s, n) ==
    IF n <= 0 \/ s.r.st # "ok" THEN s ELSE Repeat(Body, Body(s), n - 1)

\* let count = ...; let mut xs = vec![]; for _ in 0..count { Body }
Counted(Body(_), count) == Repeat(Body, Res(<<>>, count.r), count.v)

\* xs.push(x)
Push(s, x) == Res(IF x.r.st = "ok" THEN Append(s.v, x.v) ELSE s.v, x.r)

\* one assignment after the other, each of what Read(value so far, reader,
\* field) gives, as far as the reads succeed
RECURSIVE AssignEach(_, _, _)
AssignEach(Read(_, _, _), s, fields) ==
    LET assigned(x) ==
            Res(IF x.r.st = "ok" THEN [s.v EXCEPT ![Head(fields)] = x.v] ELSE s.v, x.r)
    IN IF fields = <<>> \/ s.r.st # "ok" THEN s
       ELSE AssignEach(Read, assigned(Read(s.v, s.r, Head(fields))), Tail(fields))

\* What an arm reads or writes, in its order, and the field it is for:
\* a number of a kind
Num(name, kind) == [name |-> name, k |-> kind]

\* a u16 of access flags of one of the nine tables
Flags(name, ctx) == [name |-> name, k |-> "flags", of |-> ctx]

\* a count of kind `count` ("": none) and as many numbers
List(name, count, kind) == [name |-> name, k |-> "list", count |-> count, of |-> kind]

\* a count and as many rows
Table(name, count, row) == [name |-> name, k |-> "table", count |-> count, row |-> row]

\* "code": a code block; "attributes": an attribute list; "bytes":
\* attribute_length bytes; "zero": a literal 0u16
Kind(name, kind) == [name |-> name, k |-> kind]

(***************************************************************************)
(* reader.rs: read_attributes, read_interfaces, read_fields, read_methods  *)
(***************************************************************************)
\* the arms of `match name` that are a sequence of reads: the name, the
\* asserted attribute_length (-1: none), what is read and into which field
ReadArms ==
    <<
      [attr |-> "ConstantValue", name |-> "ConstantValue", length |-> -1,
       shape |-> <<Num("constantvalue_index", "u16")>>],
      [attr |-> "Code", name |-> "Code", length |-> -1,
       shape |-> <<Num("max_stack", "u16"), Num("max_locals", "u16"), Kind("code", "code"),
                  Table("exception_table", "u16",
                        <<Num("start_pc", "u16"), Num("end_pc", "u16"),
                          Num("handler_pc", "u16"), Num("catch_type", "u16")>>),
                  Kind("attributes", "attributes")>>],
      [attr |-> "Exceptions", name |-> "Exceptions", length |-> -1,
       shape |-> <<List("0", "u16", "u16")>>],
      [attr |-> "InnerClasses", name |-> "InnerClasses", length |-> -1,
       shape |-> <<Table("0", "u16",
                        <<Num("inner_class_info_index", "u16"),
                          Num("outer_class_info_index", "u16"),
                          Num("inner_name_index", "u16"),
                          Flags("inner_class_access_flags", "inner_class")>>)>>],
      [attr |-> "EnclosingMethod", name |-> "EnclosingMethod", length |-> 4,
       shape |-> <<Num("class_index", "u16"), Num("method_index", "u16")>>],
      [attr |-> "Synthetic", name |-> "Synthetic", length |-> 0,
       shape |-> <<>>],
      [attr |-> "Signature", name |-> "Signature", length |-> -1,
       shape |-> <<Num("signature_index", "u16")>>],
      [attr |-> "SourceFile", name |-> "SourceFile", length |-> 2,
       shape |-> <<Num("sourcefile_index", "u16")>>],
      [attr |-> "SourceDebugExtension", name |-> "SourceDebugExtension", length |-> -1,
       shape |-> <<Kind("debug_extension", "bytes")>>],
      [attr |-> "LineNumberTable", name |-> "LineNumberTable", length |-> -1,
       shape |-> <<Table("0", "u16",
                        <<Num("start_pc", "u16"), Num("line_number", "u16")>>)>>],
      [attr |-> "LocalVariableTable", name |-> "LocalVariableTable", length |-> -1,
       shape |-> <<Table("0", "u16",
                        <<Num("start_pc", "u16"), Num("length", "u16"),
                          Num("name_index", "u16"), Num("descriptor_index", "u16"),
                          Num("index", "u16")>>)>>],
      [attr |-> "LocalVariableTypeTable", name |-> "LocalVariableTypeTable", length |-> -1,
       shape |-> <<Table("0", "u16",
                        <<Num("start_pc", "u16"), Num("length", "u16"),
                          Num("name_index", "u16"), Num("signature_index", "u16"),
                          Num("index", "u16")>>)>>],
      [attr |-> "Deprecated", name |-> "Deprecated", length |-> 0,
       shape |-> <<>>],
      [attr |-> "BootstrapMethods", name |-> "BootstrapMethods", length |-> -1,
       shape |-> <<Table("0", "u16",
                        <<Num("bootstrap_method_ref", "u16"),
                          List("bootstrap_arguments", "u16", "u16")>>)>>],
      [attr |-> "MethodParameters", name |-> "MethodParameters", length |-> -1,
       shape |-> <<Table("0", "u8",
                        <<Num("name_index", "u16"),
                          Flags("access_flags", "method_parameter")>>)>>],
      [attr |-> "Module", name |-> "Module", length |-> -1,
       shape |-> <<Num("module_name_index", "u16"), Flags("module_flags", "module"),
                  Num("module_version_index", "u16"),
                  Table("requires", "u16",
                        <<Num("requires_index", "u16"),
                          Flags("requires_flags", "requires"),
                          Num("requires_version_index", "u16")>>),
                  Table("exports", "u16",
                        <<Num("exports_index", "u16"), Flags("exports_flags", "exports"),
                          List("exports_to_index", "u16", "u16")>>),
                  Table("opens", "u16",
                        <<Num("opens_index", "u16"), Flags("opens_flags", "opens"),
                          List("opens_to_index", "u16", "u16")>>),
                  List("uses", "u16", "u16"),
                  Table("provides", "u16",
                        <<Num("provides_index", "u16"),
                          List("provides_with_index", "u16", "u16")>>)>>],
      [attr |-> "ModuleMainClass", name |-> "ModuleMainClass", length |-> 2,
       shape |-> <<Num("0", "u16")>>],
      [attr |-> "ModulePackages", name |-> "ModulePackages", length |-> -1,
       shape |-> <<List("0", "u16", "u16")>>],
      [attr |-> "NestHost", name |-> "NestHost", length |-> 2,
       shape |-> <<Num("0", "u16")>>],
      [attr |-> "NestMembers", name |-> "NestMembers", length |-> -1,
       shape |-> <<List("0", "u16", "u16")>>],
      [attr |-> "PermittedSubclasses", name |-> "PermittedSubclasses", length |-> -1,
       shape |-> <<List("0", "u16", "u16")>>],
      [attr |-> "Record", name |-> "Record", length |-> -1,
       shape |-> <<Table("0", "u16",
                        <<Num("name_index", "u16"), Num("descriptor_index", "u16"),
                          Kind("attributes", "attributes")>>)>>]
    >>

\* the arms `"StackMapTable"`, `"AnnotationDefault"` and `"Runtime..."`
OtherReadArms ==
    {"StackMapTable", "RuntimeVisibleAnnotations", "RuntimeInvisibleAnnotations",
     "RuntimeVisibleParameterAnnotations", "RuntimeInvisibleParameterAnnotations",
     "AnnotationDefault", "RuntimeVisibleTypeAnnotations",
     "RuntimeInvisibleTypeAnnotations"}

RECURSIVE read_attributes(_, _)
RECURSIVE read_shape(_, _, _, _)

read_item(jvm, r, item, attribute_length) ==
    LET flags(x) == Res(extract_flags(x.v, FlagTable(item.of)), x.r)
        list(count) == read_repeat(count.r, count.v, item.of)
    IN CASE item.k = "flags" -> flags(read_kind(r, "u16"))
         [] item.k = "list" -> list(read_kind(r, item.count))
         [] item.k = "table" ->
                Counted(LAMBDA s : Push(s, read_shape(jvm, s.r, item.row, attribute_length)),
                        read_kind(r, item.count))
         [] item.k = "code" -> decompile(r)
         [] item.k = "attributes" -> read_attributes(jvm, r)
         [] item.k = "bytes" -> read_buf(r, attribute_length)
         [] OTHER -> read_kind(r, item.k)

\* the struct or the variant's fields
read_shape(jvm, r, shape, attribute_length) ==
    AssignEach(LAMBDA v, q, name :
                   read_item(jvm, q, shape[CHOOSE k \in 1..Len(shape) : shape[k].name = name],
                             attribute_length),
               Res([name \in {shape[k].name : k \in 1..Len(shape)} |-> 0], r),
               [k \in 1..Len(shape) |-> shape[k].name])

\* one iteration of the loop of read_attributes: attr
read_attribute(jvm, r0) ==
    LET unknown(name, data) ==
            Res([attr |-> "Unknown", fields |-> [name |-> name, data |-> data.v]], data.r)
        variant(arm, fields) == Res([attr |-> arm.attr, fields |-> fields.v], fields.r)
        \* assert_eq!(attribute_length, ...)
        asserted(arm, attribute_length, r) ==
            IF arm.length \notin {-1, attribute_length} THEN Fail(r, "panic") ELSE r
        matched(name, attribute_length, r, arms) ==
            IF name.r # "ok"
            THEN Res(<<>>, Fail(r, IF name.r = "abort" THEN "abort" ELSE "java"))
            ELSE IF arms # <<>>
                 THEN variant(arms[1],
                              read_shape(jvm, asserted(arms[1], attribute_length, r),
                                         arms[1].shape, attribute_length))
            ELSE IF \E other \in OtherReadArms : Ascii(other) = name.v
                 THEN Res(<<>>, Fail(r, "other"))
            ELSE unknown(name.v, read_buf(r, attribute_length))
        named(header, name) ==
            matched(name, header.v[2], header.r,
                    SelectSeq(ReadArms, LAMBDA arm : Ascii(arm.name) = name.v))
        resolved(header) ==
            IF header.r.st # "ok" THEN Res(<<>>, header.r)
            ELSE named(header, get_string(jvm.constants, header.v[1], 0))
    IN resolved(read_kinds(r0, <<"u16", "u32">>))

read_attributes(jvm, r) ==
    Counted(LAMBDA s : Push(s, read_attribute(jvm, s.r)), read_kind(r, "u16"))

read_interfaces(r) ==
    Counted(LAMBDA s : Push(s, read_kind(s.r, "u16")), read_kind(r, "u16"))

read_fields(jvm, r) ==
    read_item(jvm, r,
              Table("fields", "u16",
                    <<Flags("access_flags", "field"), Num("name", "u16"),
                      Num("descriptor", "u16"), Kind("attributes", "attributes")>>), 0)

read_methods(jvm, r) ==
    read_item(jvm, r,
              Table("methods", "u16",
                    <<Flags("access_flags", "method"), Num("name", "u16"),
                      Num("descriptor", "u16"), Kind("attributes", "attributes")>>), 0)

(***************************************************************************)
(* lib.rs: JVMClass::load.  The fields of self are assigned one after the  *)
(* other, so a load that fails leaves the ones before the failure assigned *)
(***************************************************************************)
load(self, r) ==
    LET \* assert_eq!(magic, 0xCAFEBABE)
        asserted(magic) ==
            IF magic.r.st = "ok" /\ magic.v # FromBytes("u32", <<202, 254, 186, 190>>)
            THEN Fail(magic.r, "panic") ELSE magic.r
        flags(x) == Res(extract_flags(x.v, FlagTable("class")), x.r)
    IN AssignEach(LAMBDA v, q, name :
                      CASE name = "constants" -> read_constant_pool(q)
                        [] name = "access_flags" -> flags(read_kind(q, "u16"))
                        [] name = "interfaces" -> read_interfaces(q)
                        [] name = "fields" -> read_fields(v, q)
                        [] name = "methods" -> read_methods(v, q)
                        [] name = "attributes" -> read_attributes(v, q)
                        [] OTHER -> read_kind(q, "u16"),
                  Res(self, asserted(read_kind(r, "u32"))),
                  <<"minor", "major", "constants", "access_flags", "this_class",
                    "super_class", "interfaces", "fields", "methods", "attributes">>)

(***************************************************************************)
(* writer.rs: write_attributes, write_interfaces, write_fields,            *)
(* write_methods                                                           *)
(***************************************************************************)
\* the arms of `match attribute`: what is written from which field, and the
\* name the arm gives
WriteArms ==
    <<
      [attr |-> "ConstantValue", name |-> "ConstantValue",
       shape |-> <<Num("constantvalue_index", "u16")>>],
      [attr |-> "Code", name |-> "Code",
       shape |-> <<Num("max_stack", "u16"), Num("max_locals", "u16"), Kind("code", "code"),
                  Kind("", "zero"), Kind("attributes", "attributes")>>],
      [attr |-> "Exceptions", name |-> "Exceptions",
       shape |-> <<List("0", "u16", "u16")>>],
      [attr |-> "InnerClasses", name |-> "InnerClasses",
       shape |-> <<Table("0", "u16",
                        <<Num("inner_class_info_index", "u16"),
                          Num("outer_class_info_index", "u16"),
                          Num("inner_name_index", "u16"),
                          Flags("inner_class_access_flags", "inner_class")>>)>>],
      [attr |-> "EnclosingMethod", name |-> "EnclosingMethod",
       shape |-> <<Num("class_index", "u16"), Num("method_index", "u16")>>],
      [attr |-> "Synthetic", name |-> "Synthetic",
       shape |-> <<>>],
      [attr |-> "Signature", name |-> "Signature",
       shape |-> <<Num("signature_index", "u16")>>],
      [attr |-> "SourceFile", name |-> "SourceFile",
       shape |-> <<Num("sourcefile_index", "u16")>>],
      [attr |-> "SourceDebugExtension", name |-> "SourceDebugExtension",
       shape |-> <<Kind("debug_extension", "bytes")>>],
      [attr |-> "LineNumberTable", name |-> "LineNumberTable",
       shape |-> <<Table("0", "u16",
                        <<Num("start_pc", "u16"), Num("line_number", "u16")>>)>>],
      [attr |-> "LocalVariableTable", name |-> "LocalVariableTable",
       shape |-> <<Table("0", "u16",
                        <<Num("start_pc", "u16"), Num("length", "u16"),
                          Num("name_index", "u16"), Num("descriptor_index", "u16"),
                          Num("index", "u16")>>)>>],
      [attr |-> "LocalVariableTypeTable", name |-> "LocalVariableTypeTable",
       shape |-> <<Table("0", "u16",
                        <<Num("start_pc", "u16"), Num("length", "u16"),
                          Num("name_index", "u16"), Num("signature_index", "u16"),
                          Num("index", "u16")>>)>>],
      [attr |-> "Deprecated", name |-> "Deprecated",
       shape |-> <<>>],
      [attr |-> "BootstrapMethods", name |-> "BootstrapMethods",
       shape |-> <<Table("0", "u16",
                        <<Num("bootstrap_method_ref", "u16"),
                          List("bootstrap_arguments", "u16", "u16")>>)>>],
      [attr |-> "MethodParameters", name |-> "MethodParameters",
       shape |-> <<Table("0", "u8",
                        <<Num("name_index", "u16"),
                          Flags("access_flags", "method_parameter")>>)>>],
      [attr |-> "Module", name |-> "Module",
       shape |-> <<Num("module_name_index", "u16"), Flags("module_flags", "module"),
                  Num("module_version_index", "u16"),
                  Table("requires", "u16",
                        <<Num("requires_index", "u16"),
                          Flags("requires_flags", "requires"),
                          Num("requires_version_index", "u16")>>),
                  Table("exports", "u16",
                        <<Num("exports_index", "u16"), Flags("exports_flags", "exports"),
                          List("exports_to_index", "", "u16")>>),
                  Table("opens", "u16",
                        <<Num("opens_index", "u16"), Flags("opens_flags", "opens"),
                          List("opens_to_index", "", "u16")>>),
                  List("uses", "", "u16"),
                  Table("provides", "u16",
                        <<Num("provides_index", "u16"),
                          List("provides_with_index", "", "u16")>>)>>],
      [attr |-> "ModuleMainClass", name |-> "ModuleMainClass",
       shape |-> <<Num("0", "u16")>>],
      [attr |-> "ModulePackages", name |-> "ModulePackages",
       shape |-> <<List("0", "u16", "u16")>>],
      [attr |-> "NestHost", name |-> "NestHost",
       shape |-> <<Num("0", "u16")>>],
      [attr |-> "NestMembers", name |-> "NestMembers",
       shape |-> <<List("0", "u16", "u16")>>],
      [attr |-> "PermittedSubclasses", name |-> "PermittedSubclasses",
       shape |-> <<List("0", "u16", "u16")>>],
      [attr |-> "Record", name |-> "Record",
       shape |-> <<Table("0", "u16",
                        <<Num("name_index", "u16"), Num("descriptor_index", "u16"),
                          Kind("attributes", "attributes")>>)>>],
      [attr |-> "Unknown", name |-> "",
       shape |-> <<Kind("data", "bytes")>>]
    >>

RECURSIVE write_attributes(_, _, _)
RECURSIVE write_shape(_, _, _, _)

write_item(w, item, fields, jvm) ==
    LET counted(n) == IF item.count = "" THEN w ELSE write_kind(w, item.count, n) IN
    CASE item.k = "flags" ->
            write_kind(w, "u16", compact_flags(fields[item.name], FlagTable(item.of)))
      [] item.k = "list" ->
            write_kinds(counted(Len(fields[item.name])),
                        [k \in 1..Len(fields[item.name]) |-> item.of], fields[item.name])
      [] item.k = "table" ->
            WriteEach(LAMBDA w1, row : write_shape(w1, item.row, row, jvm),
                      counted(Len(fields[item.name])), fields[item.name])
      [] item.k = "code" -> compile(w, fields[item.name])
      [] item.k = "attributes" -> write_attributes(w, fields[item.name], jvm)
      [] item.k = "bytes" -> write_all(w, fields[item.name])
      [] item.k = "zero" -> write_kind(w, "u16", 0)
      [] OTHER -> write_kind(w, item.k, fields[item.name])

write_shape(w, shape, fields, jvm) ==
    WriteEach(LAMBDA w1, item : write_item(w1, item, fields, jvm), w, shape)

\* a slip: the six bytes of the header are counted
attr_len_whole(attr_start, attr_end) == attr_end - attr_start

\* let attr_len = attr_end - attr_start - 6
attr_len(attr_start, attr_end) == attr_end - attr_start - 6

\* one iteration of the loop of write_attributes
write_attribute(w, attribute, jvm) ==
    LET \* the name index and attr_len, written at attr_start
        patched(body, string_index, name) ==
            IF body.st # "ok" THEN body
            ELSE IF string_index.r # "ok" THEN Fail(body, "panic")
            ELSE [seek_start(write_kinds(seek_start(body, w.pos), <<"u16", "u32">>,
                                         <<string_index.v, attr_len(w.pos, body.pos)>>),
                             body.pos)
                    EXCEPT !.patched = Append(@, [attr_start |-> w.pos,
                                                  attr_end |-> body.pos,
                                                  attr_name |-> name])]
        attr_name(arm) ==
            IF arm.attr = "Unknown" THEN attribute.fields.name ELSE Ascii(arm.name)
        named(arm, body) ==
            patched(body, get_string_index(jvm.constants, attr_name(arm)), attr_name(arm))
        written(arm, placeholder) ==
            named(arm, write_shape(placeholder, arm.shape, attribute.fields, jvm))
        matched(arms) == written(arms[1], write_kinds(w, <<"u16", "u32">>, <<0, 0>>))
    IN matched(SelectSeq(WriteArms, LAMBDA arm : arm.attr = attribute.attr))

write_attributes(w, attributes, jvm) ==
    WriteEach(LAMBDA w1, attribute : write_attribute(w1, attribute, jvm),
              write_kind(w, "u16", Len(attributes)), attributes)

\* a slip: the count of the interfaces is not written
write_interfaces_no_count(w, interfaces) ==
    write_kinds(w, [k \in 1..Len(interfaces) |-> "u16"], interfaces)

write_interfaces(w, interfaces) ==
    write_kinds(w, [k \in 1..(1 + Len(interfaces)) |-> "u16"], <<Len(interfaces)>> \o interfaces)

write_fields(w, fields, jvm) ==
    write_item(w, Table("fields", "u16",
                        <<Flags("access_flags", "field"), Num("name", "u16"),
                          Num("descriptor", "u16"), Kind("attributes", "attributes")>>),
               [fields |-> fields], jvm)

write_methods(w, methods, jvm) ==
    write_item(w, Table("methods", "u16",
                        <<Flags("access_flags", "method"), Num("name", "u16"),
                          Num("descriptor", "u16"), Kind("attributes", "attributes")>>),
               [methods |-> methods], jvm)

(***************************************************************************)
(* lib.rs: JVMClass::store                                                 *)
(***************************************************************************)
store(self, w) ==
    write_attributes(
        write_methods(
            write_fields(
                write_interfaces(
                    write_kinds(
                        write_constant_pool(
                            write_kinds(w, <<"u32", "u16", "u16">>,
                                        <<FromBytes("u32", <<202, 254, 186, 190>>),
                                          self.minor, self.major>>),
                            self.constants),
                        <<"u16", "u16", "u16">>,
                        <<compact_flags(self.access_flags, FlagTable("class")),
                          self.this_class, self.super_class>>),
                    self.interfaces),
                self.fields, self),
            self.methods, self),
        self.attributes, self)
(***************************************************************************)
(* reader.rs: read_verification_type, and the body of the loop of the      *)
(* "StackMapTable" arm of read_attributes                                  *)
(***************************************************************************)
VerificationTypes ==
    <<"Top", "Integer", "Float", "Double", "Long", "Null", "UninitializedThis">>

read_verification_type(r) ==
    LET tag == read_kind(r, "u8")
        index(name, x) == Res([tag |-> name, index |-> x.v], x.r)
    IN IF tag.r.st # "ok" THEN Res([tag |-> "Top"], tag.r)
       ELSE CASE tag.v \in 0..6 -> Res([tag |-> VerificationTypes[tag.v + 1]], tag.r)
              [] tag.v = 7 -> index("Object", read_kind(tag.r, "u16"))
              [] tag.v = 8 -> index("Uninitialized", read_kind(tag.r, "u16"))
              [] OTHER -> Res([tag |-> "Top"], Fail(tag.r, "panic"))

\* for _ in 0..n { xs.push(read_verification_type(r)?); }
read_verification_types(r, n) ==
    Repeat(LAMBDA s : Push(s, read_verification_type(s.r)), Res(<<>>, r), n)

\* StackMapFrameType::SameFrame(frame_type), ... ::FullFrame
StackMapFrameType(tag, frame_type) == [tag |-> tag, frame_type |-> frame_type]

\* one iteration of `for _ in 0..number_of_entries`: the frame pushed
read_stack_map_frame(r) ==
    LET frame ==
            [frame_type |-> StackMapFrameType("SameFrame", 0), offset_delta |-> 0,
             locals |-> <<>>, stack |-> <<>>]
        frame_type == read_kind(r, "u8")
        one_stack_item(tag, item) ==
            Res([frame EXCEPT !.frame_type = tag, !.stack = <<item.v>>], item.r)
        with_delta(tag, delta) ==
            Res([frame EXCEPT !.frame_type = tag, !.offset_delta = delta.v], delta.r)
        append(tag, delta, locals) ==
            Res([frame EXCEPT !.frame_type = tag, !.offset_delta = delta.v,
                              !.locals = locals.v], locals.r)
        stack_of(locals, number_of_stack_items) ==
            read_verification_types(number_of_stack_items.r, number_of_stack_items.v)
        full(locals, stack) ==
            Res([frame EXCEPT !.frame_type = StackMapFrameType("FullFrame", 255),
                              !.locals = locals.v, !.stack = stack.v], stack.r)
        full_stack(locals) == full(locals, stack_of(locals, read_kind(locals.r, "u16")))
        full_locals(number_of_locals) ==
            full_stack(read_verification_types(number_of_locals.r, number_of_locals.v))
        appended(tag, delta) ==
            append(tag, delta, read_verification_types(delta.r, frame_type.v - 251))
    IN IF frame_type.r.st # "ok" THEN Res(frame, frame_type.r)
       ELSE CASE frame_type.v \in 0..63 ->
                    Res([frame EXCEPT
                            !.frame_type = StackMapFrameType("SameFrame", frame_type.v)],
                        frame_type.r)
              [] frame_type.v \in 64..127 ->
                    one_stack_item(StackMapFrameType("SameLocals1StackItemFrame",
                                                     frame_type.v),
                                   read_verification_type(frame_type.r))
              [] frame_type.v = 247 ->
                    one_stack_item(StackMapFrameType("SameLocals1StackItemFrameExtended",
                                                     247),
                                   read_verification_type(frame_type.r))
              [] frame_type.v \in 248..250 ->
                    with_delta(StackMapFrameType("ChopFrame", frame_type.v),
                               read_kind(frame_type.r, "u16"))
              [] frame_type.v = 251 ->
                    with_delta(StackMapFrameType("SameFrameExtended", 251),
                               read_kind(frame_type.r, "u16"))
              [] frame_type.v \in 252..254 ->
                    appended(StackMapFrameType("AppendFrame", frame_type.v),
                             read_kind(frame_type.r, "u16"))
              [] frame_type.v = 255 -> full_locals(read_kind(frame_type.r, "u16"))
              [] OTHER -> Res(frame, Fail(frame_type.r, "panic"))

(***************************************************************************)
(* SpecFlags: a mask is unpacked by the reader, then packed by the writer  *)
(***************************************************************************)
FlagContexts ==
    {"class", "inner_class", "field", "method", "method_parameter",
     "module", "requires", "opens", "exports"}

\* every u16 with few bits set, or few bits clear
FlagMasks ==
    {m \in 0..65535 : PopCount(m) <= MaxFlagBits \/ PopCount(m) >= 16 - MaxFlagBits}

IdleFlags ==
    /\ fctx = "class" /\ fmask = 0 /\ fflags = <<>> /\ fpacked = 0 /\ fphase = "idle"

IdleClass ==
    /\ kin = <<>>
    /\ kself = Res(JVMClassNew, NewReader(<<>>))
    /\ kp0 = 0
    /\ kout = NewWriter
    /\ kagain = Res(JVMClassNew, NewReader(<<>>))
    /\ kphase = "idle"

IdleFrame ==
    /\ mbytes = <<>>
    /\ mframe = Res(<<>>, NewReader(<<>>))
    /\ mphase = "idle"

IdleString ==
    /\ gconstants = <<>>
    /\ gid = 0
    /\ gstring = <<>>
    /\ gresult = Res(<<>>, "ok")
    /\ gindex = Res(0, "ok")
    /\ gphase = "idle"

IdleCode ==
    /\ catoms = <<>>
    /\ ctrail = <<>>
    /\ cinsts = Res(<<>>, NewReader(<<>>))
    /\ cout = NewWriter
    /\ csizes = <<>>
    /\ cagain = Res(<<>>, NewReader(<<>>))
    /\ cphase = "idle"

IdlePool ==
    /\ pchunks = <<>>
    /\ pcount = 0
    /\ pread = Res(<<>>, NewReader(<<>>))
    /\ pwritten = NewWriter
    /\ pagain = Res(<<>>, NewReader(<<>>))
    /\ pphase = "idle"

InitFlags ==
    /\ fctx \in FlagContexts
    /\ fmask \in FlagMasks
    /\ fflags = <<>>
    /\ fpacked = 0
    /\ fphase = "start"
    /\ build \in {"debug", "release"}
    /\ IdleClass
    /\ IdlePool
    /\ IdleCode
    /\ IdleString
    /\ IdleFrame

ExtractFlags ==
    /\ fphase = "start"
    /\ fflags' = extract_flags(fmask, FlagTable(fctx))
    /\ fphase' = "unpacked"
    /\ UNCHANGED <<fctx, fmask, fpacked>>
    /\ UNCHANGED <<build, classVars, poolVars, codeVars, stringVars, frameVars>>

CompactFlags ==
    /\ fphase = "unpacked"
    /\ fpacked' = compact_flags(fflags, FlagTable(fctx))
    /\ fphase' = "packed"
    /\ UNCHANGED <<fctx, fmask, fflags>>
    /\ UNCHANGED <<build, classVars, poolVars, codeVars, stringVars, frameVars>>

NextFlags == ExtractFlags \/ CompactFlags

SpecFlags == InitFlags /\ [][NextFlags]_vars

(***************************************************************************)
(* SpecPool: read_constant_pool on constant_pool_count followed by cp_info *)
(* entries, then write_constant_pool on the pool that was read, then       *)
(* read_constant_pool on the bytes written                                 *)
(***************************************************************************)
Utf8A == <<1, 0, 1, 65>>
Utf8x == <<1, 0, 1, 120>>
LongOne == <<5, 0, 0, 0, 0, 0, 0, 0, 1>>
LongFortyTwo == <<5, 0, 0, 0, 0, 0, 0, 0, 42>>
DoubleTwo == <<6, 64, 0, 0, 0, 0, 0, 0, 0>>
ClassOf(i) == <<7, 0, i>>

\* complete cp_info entries, one of each tag at least
GoodChunks ==
    {<<1, 0, 0>>, Utf8A, Utf8x, <<1, 0, 2, 195, 169>>,
     <<3, 255, 255, 255, 255>>, <<4, 63, 128, 0, 0>>, LongOne, LongFortyTwo, DoubleTwo,
     ClassOf(0), ClassOf(1), ClassOf(2), ClassOf(3), ClassOf(5),
     <<8, 0, 1>>, <<9, 0, 1, 0, 2>>, <<10, 0, 2, 0, 1>>, <<11, 0, 1, 0, 3>>,
     <<12, 0, 1, 0, 2>>, <<15, 1, 0, 1>>, <<16, 0, 2>>, <<17, 0, 0, 0, 1>>,
     <<18, 0, 0, 0, 2>>, <<19, 0, 1>>, <<20, 0, 1>>}

\* and entries the reader stops on or reads past: bytes that are not UTF-8, a
\* Utf8 shorter than its length, a tag that is no constant's, a Class cut short
PoolChunks == GoodChunks \cup {<<1, 0, 1, 255>>, <<1, 0, 2, 65>>, <<2>>, <<7, 0>>}

PoolInput == ToBytes("u16", pcount) \o Concat(pchunks)

InitPool ==
    /\ pchunks \in UNION {[1..n -> PoolChunks] : n \in 0..MaxPoolEntries}
    /\ pcount \in 0..(MaxPoolEntries + 2)
    /\ pread = Res(<<>>, NewReader(<<>>))
    /\ pwritten = NewWriter
    /\ pagain = Res(<<>>, NewReader(<<>>))
    /\ pphase = "start"
    /\ build \in {"debug", "release"}
    /\ IdleClass
    /\ IdleFlags
    /\ IdleCode
    /\ IdleString
    /\ IdleFrame

ReadConstantPool ==
    /\ pphase = "start"
    /\ pread' = read_constant_pool(NewReader(PoolInput))
    /\ pphase' = "read"
    /\ UNCHANGED <<pchunks, pcount, pwritten, pagain>>
    /\ UNCHANGED <<build, classVars, flagVars, codeVars, stringVars, frameVars>>

WriteConstantPool ==
    /\ pphase = "read"
    /\ pread.r.st = "ok"
    /\ pwritten' = write_constant_pool(NewWriter, pread.v)
    /\ pphase' = "written"
    /\ UNCHANGED <<pchunks, pcount, pread, pagain>>
    /\ UNCHANGED <<build, classVars, flagVars, codeVars, stringVars, frameVars>>

ReadConstantPoolAgain ==
    /\ pphase = "written"
    /\ pwritten.st = "ok"
    /\ pagain' = read_constant_pool(NewReader(pwritten.buf))
    /\ pphase' = "again"
    /\ UNCHANGED <<pchunks, pcount, pread, pwritten>>
    /\ UNCHANGED <<build, classVars, flagVars, codeVars, stringVars, frameVars>>

NextPool == ReadConstantPool \/ WriteConstantPool \/ ReadConstantPoolAgain

SpecPool == InitPool /\ [][NextPool]_vars

(***************************************************************************)
(* SpecCode: decompile on code_length, the bytecode and what follows it in *)
(* the reader; compile on the instructions; Instruction::size on each;     *)
(* decompile on what compile wrote                                         *)
(***************************************************************************)
\* An instruction of the input: its opcode and operands, and for a switch
\* the part that starts at the next multiple of four
Atom(op, aligned) == [op |-> op, aligned |-> aligned]

U32Seq(ps) == Concat([k \in 1..Len(ps) |-> ToBytes("u32", ps[k])])

\* tableswitch: default, low, high, the jump offsets
TableSwitchAtom(default, low, high, targets) ==
    Atom(<<170>>, U32Seq(<<default, low, high>> \o targets))

\* lookupswitch: default, npairs, the match-offset pairs
LookupSwitchAtom(default, pairs) ==
    Atom(<<171>>, U32Seq(<<default, Len(pairs)>> \o pairs))

ILoad0Atom == Atom(<<26>>, <<>>)
IReturnAtom == Atom(<<172>>, <<>>)
TableSwitch01Atom == TableSwitchAtom(16, 0, 1, <<12, 14>>)
LookupSwitch1Atom == LookupSwitchAtom(16, <<7, -2>>)
IIncWAtom == Atom(<<196, 132, 1, 44, 255, 251>>, <<>>)

\* the wide forms other than iinc, index 300
WideAtoms == {Atom(<<196, k, 1, 44>>, <<>>) : k \in {21, 22, 23, 24, 25, 54, 55, 56, 57, 58, 169}}

\* nop, iload_0, bipush, sipush, ireturn, two switches, wide iinc: bytecode is
\* drawn as sequences of these
CoreAtoms ==
    {Atom(<<0>>, <<>>), ILoad0Atom, Atom(<<16, 7>>, <<>>), Atom(<<17, 255, 254>>, <<>>),
     IReturnAtom, TableSwitch01Atom, LookupSwitch1Atom, IIncWAtom}

\* and as one of these alone: the other wide forms; loads in the general
\* form; ret; iinc; goto_w; invokeinterface; invokedynamic, and with a nonzero
\* third byte; switches with no entries, with low above high, with a
\* negative low, with two pairs;
\* a wide of no wide opcode; a sipush cut short; every byte as an opcode
\* before the bytes 0 5 0 0
OtherAtoms ==
    WideAtoms \cup
    {Atom(<<21, 2>>, <<>>), Atom(<<21, 5>>, <<>>), Atom(<<169, 1>>, <<>>),
     Atom(<<132, 3, 251>>, <<>>), Atom(<<200, 255, 255, 255, 254>>, <<>>),
     Atom(<<185, 0, 1, 2>>, <<>>), Atom(<<186, 0, 1, 0, 0>>, <<>>),
     Atom(<<186, 0, 1, 0, 1>>, <<>>),
     TableSwitchAtom(16, 1, 0, <<>>),
     TableSwitchAtom(16, -1, 0, <<12, 14>>),
     TableSwitchAtom(16, -2, -1, <<12, 14>>),
     TableSwitchAtom(16, 2, 0, <<>>),
     LookupSwitchAtom(16, <<>>),
     LookupSwitchAtom(16, <<1, 20, 2, 24>>),
     Atom(<<196, 0, 0, 0>>, <<>>), Atom(<<17, 0>>, <<>>)} \cup
    {Atom(<<k, 0, 5, 0, 0>>, <<>>) : k \in 0..255}

\* iload_0..aload_3, each before the store of the same kind and index
\* (istore_0 is iload_0 + 33)
ShortFormPairs == {<<Atom(<<k>>, <<>>), Atom(<<k + 33>>, <<>>)>> : k \in 26..45}

\* the bytes of an instruction whose opcode is at offset pc
AtomBytes(atom, pc) ==
    IF atom.aligned = <<>> THEN atom.op
    ELSE atom.op \o Zeros((4 - ((pc + Len(atom.op)) % 4)) % 4) \o atom.aligned

RECURSIVE Assemble(_, _)
Assemble(atoms, pc) ==
    IF atoms = <<>> THEN <<>>
    ELSE LET bytes == AtomBytes(Head(atoms), pc) IN
         bytes \o Assemble(Tail(atoms), pc + Len(bytes))

\* code_length and code[code_length]
CodeBytes == ToBytes("u32", Len(Assemble(catoms, 0))) \o Assemble(catoms, 0)

InitCode ==
    /\ build \in {"debug", "release"}
    /\ catoms \in UNION {[1..n -> CoreAtoms] : n \in 0..MaxCodeInsts}
                  \cup {<<a>> : a \in OtherAtoms} \cup ShortFormPairs
    /\ ctrail \in {<<>>, <<3, 251, 0, 0>>}
    /\ cinsts = Res(<<>>, NewReader(<<>>))
    /\ cout = NewWriter
    /\ csizes = <<>>
    /\ cagain = Res(<<>>, NewReader(<<>>))
    /\ cphase = "start"
    /\ IdleClass
    /\ IdleFlags
    /\ IdlePool
    /\ IdleString
    /\ IdleFrame

Decompile ==
    /\ cphase = "start"
    /\ cinsts' = decompile(NewReader(CodeBytes \o ctrail))
    /\ cphase' = "decoded"
    /\ UNCHANGED <<catoms, ctrail, cout, csizes, cagain>>
    /\ UNCHANGED <<build, classVars, flagVars, poolVars, stringVars, frameVars>>

Compile ==
    /\ cphase = "decoded"
    /\ cinsts.r.st = "ok"
    /\ cout' = compile(NewWriter, cinsts.v)
    /\ cphase' = "compiled"
    /\ UNCHANGED <<catoms, ctrail, cinsts, csizes, cagain>>
    /\ UNCHANGED <<build, classVars, flagVars, poolVars, stringVars, frameVars>>

SizeInstructions ==
    /\ cphase = "compiled"
    /\ cout.st = "ok"
    /\ csizes' = [k \in 1..Len(cinsts.v) |-> size(cinsts.v[k])]
    /\ cphase' = "sized"
    /\ UNCHANGED <<catoms, ctrail, cinsts, cout, cagain>>
    /\ UNCHANGED <<build, classVars, flagVars, poolVars, stringVars, frameVars>>

DecompileAgain ==
    /\ cphase = "sized"
    /\ cagain' = decompile(NewReader(cout.buf \o ctrail))
    /\ cphase' = "again"
    /\ UNCHANGED <<catoms, ctrail, cinsts, cout, csizes>>
    /\ UNCHANGED <<build, classVars, flagVars, poolVars, stringVars, frameVars>>

NextCode == Decompile \/ Compile \/ SizeInstructions \/ DecompileAgain

SpecCode == InitCode /\ [][NextCode]_vars

(***************************************************************************)
(* Spec: JVMClass::load on a class file, JVMClass::store on the class that *)
(* was loaded, JVMClass::load on the bytes that were stored                *)
(***************************************************************************)
\* cp_info of a Utf8
Utf8Chunk(s) == <<1>> \o ToBytes("u16", Len(Ascii(s))) \o Ascii(s)

\* #1 "Code", #2 and #3 "X", #4 "SourceFile", #5 the class java/lang/X,
\* #7 "LineNumberTable", #8 "m", #9 "()V", #10 the class Empty, #11 the
\* class java/lang/Object, #14 "Record", #15 "Module"
NamesPool ==
    <<Utf8Chunk("Code"), Utf8Chunk("X"), Utf8Chunk("X"), Utf8Chunk("SourceFile"),
      ClassOf(6), Utf8Chunk("java/lang/X"), Utf8Chunk("LineNumberTable"),
      Utf8Chunk("m"), Utf8Chunk("()V"), ClassOf(12), ClassOf(13),
      Utf8Chunk("Empty"), Utf8Chunk("java/lang/Object"), Utf8Chunk("Record"),
      Utf8Chunk("Module")>>

\* attribute_info: attribute_name_index, attribute_length, info
AttrAtom(name_index, length, info) ==
    [name_index |-> name_index, length |-> length, info |-> info]

AttrsBytes(atoms) ==
    ToBytes("u16", Len(atoms))
    \o Concat([k \in 1..Len(atoms) |->
                  ToBytes("u16", atoms[k].name_index) \o ToBytes("u32", atoms[k].length)
                  \o atoms[k].info])

\* attributes no name of which the reader knows, named by a Utf8: "X" by the
\* first of the two and by the second, with and without bytes
UnknownAtoms ==
    {AttrAtom(2, 3, <<1, 2, 3>>), AttrAtom(3, 3, <<1, 2, 3>>), AttrAtom(2, 0, <<>>)}

\* attributes as the class-file format has them: SourceFile, unknown ones
GoodAttrAtoms == UnknownAtoms \cup {AttrAtom(4, 2, <<0, 8>>)}

\* and ones it does not have: named by the class java/lang/X, by the class
\* java/lang/Object, by entry 0, by no entry; a SourceFile of three bytes; an
\* attribute longer than the bytes that follow; a LineNumberTable of no
\* lines and two bytes more
AttrAtoms ==
    GoodAttrAtoms \cup
    {AttrAtom(5, 1, <<7>>), AttrAtom(11, 0, <<>>), AttrAtom(0, 0, <<>>),
     AttrAtom(99, 0, <<>>), AttrAtom(4, 3, <<0, 8, 0>>), AttrAtom(2, 4, <<1, 2>>),
     AttrAtom(7, 4, <<0, 0, 9, 9>>)}

\* a Code attribute: max_stack 2, max_locals 1, the code, the exception
\* table, the attributes
CodeAtom(atoms, exception_table, attributes) ==
    LET info ==
            <<0, 2, 0, 1>> \o ToBytes("u32", Len(Assemble(atoms, 0))) \o Assemble(atoms, 0)
            \o ToBytes("u16", Len(exception_table)) \o Concat(exception_table)
            \o AttrsBytes(attributes)
    IN AttrAtom(1, Len(info), info)

\* a Record attribute of one component, m of descriptor ()V, with attributes
RecordAtom(attributes) ==
    LET info == <<0, 1, 0, 8, 0, 9>> \o AttrsBytes(attributes)
    IN AttrAtom(14, Len(info), info)

\* a Module attribute: module m, open, no version; no requires; an export
\* of m to `exports_to` if there is any; no opens; the `uses`; m provided
\* with `provides_with` if there is any
ModuleAtom(exports_to, uses, provides_with) ==
    LET counted(indices) == ToBytes("u16", Len(indices)) \o Concat([k \in 1..Len(indices) |-> ToBytes("u16", indices[k])])
        exports == IF exports_to = <<>> THEN <<0, 0>>
                   ELSE <<0, 1, 0, 8, 0, 0>> \o counted(exports_to)
        provides == IF provides_with = <<>> THEN <<0, 0>>
                    ELSE <<0, 1, 0, 8>> \o counted(provides_with)
        info == <<0, 8, 0, 32, 0, 0>> \o <<0, 0>> \o exports \o <<0, 0>>
                \o counted(uses) \o provides
    IN AttrAtom(15, Len(info), info)

\* field_info, method_info
MemberIn(access_flags, attributes) ==
    [access_flags |-> access_flags, name |-> 8, descriptor |-> 9, attributes |-> attributes]

MembersBytes(members) ==
    ToBytes("u16", Len(members))
    \o Concat([k \in 1..Len(members) |->
                  KindBytes(<<"u16", "u16", "u16">>,
                            <<members[k].access_flags, members[k].name,
                              members[k].descriptor>>)
                  \o AttrsBytes(members[k].attributes)])

\* a class file with the pool NamesPool, this_class #10, super_class #11,
\* and none of its bytes missing
ClassIn(access_flags, interfaces, fields, methods, attributes) ==
    [access_flags |-> access_flags, interfaces |-> interfaces, fields |-> fields,
     methods |-> methods, attributes |-> attributes,
     pool |-> NamesPool, this_class |-> 10, super_class |-> 11, cut |-> 0]

\* the pool of the smallest class: #1 Class{2}, #2 "Empty", #3 Class{4},
\* #4 "java/lang/Object"
MinimalPool ==
    <<ClassOf(2), Utf8Chunk("Empty"), ClassOf(4), Utf8Chunk("java/lang/Object")>>

\* a class public and super of this pool, this_class 2, super_class 4, with
\* no interfaces, fields, methods or attributes
MinimalIn ==
    [ClassIn(33, <<>>, <<>>, <<>>, <<>>) EXCEPT
        !.pool = MinimalPool, !.this_class = 2, !.super_class = 4]

\* the class file: version 52.0, the pool, the flags, this_class, super_class,
\* the interfaces, fields, methods and attributes
ClassBytes(in) ==
    <<202, 254, 186, 190, 0, 0, 0, 52>>
    \o ToBytes("u16", Len(in.pool) + 1) \o Concat(in.pool)
    \o KindBytes(<<"u16", "u16", "u16">>, <<in.access_flags, in.this_class, in.super_class>>)
    \o KindBytes([k \in 1..(1 + Len(in.interfaces)) |-> "u16"],
                 <<Len(in.interfaces)>> \o in.interfaces)
    \o MembersBytes(in.fields) \o MembersBytes(in.methods) \o AttrsBytes(in.attributes)

\* iload_0, ireturn, a tableswitch, a wide iinc: the code of a method is drawn
\* as sequences of these
MethodAtoms == {ILoad0Atom, IReturnAtom, TableSwitch01Atom, IIncWAtom}

\* a class with an interface, a private field and a SourceFile attribute
WholeIn == ClassIn(33, <<10>>, <<MemberIn(2, <<>>)>>, <<>>, <<AttrAtom(4, 2, <<0, 8>>)>>)

\* the files that end early: this class without its last byte, its last two
\* bytes, ..., all its bytes
TruncatedInputs ==
    {[WholeIn EXCEPT !.cut = cut] : cut \in 1..Len(ClassBytes(WholeIn))}

\* classes public and super, and with a bit no flag has; with attributes;
\* with an interface and a private field; with a public static method that
\* has code, an exception handler, a line number table; with a record
\* component that has an attribute; with a module
ClassInputs ==
    {ClassIn(access_flags, <<>>, <<>>, <<>>, attributes) :
        access_flags \in {33, 37},
        attributes \in UNION {[1..n -> AttrAtoms] : n \in 0..MaxAttributes}}
    \cup
    {ClassIn(33, <<10>>, <<MemberIn(2, attributes)>>, <<>>, attributes) :
        attributes \in UNION {[1..n -> GoodAttrAtoms] : n \in 0..1}}
    \cup
    {ClassIn(33, <<>>, <<>>,
             <<MemberIn(9, <<CodeAtom(atoms, exception_table, attributes)>>)>>, <<>>) :
        atoms \in UNION {[1..n -> MethodAtoms] : n \in 0..MaxCodeInsts},
        exception_table \in {<<>>, <<<<0, 0, 0, 1, 0, 1, 0, 0>>>>},
        attributes \in {<<>>, <<AttrAtom(7, 6, <<0, 1, 0, 0, 0, 3>>)>>}}
    \cup
    {ClassIn(33, <<>>, <<>>, <<>>, <<RecordAtom(attributes)>>) :
        attributes \in UNION {[1..n -> GoodAttrAtoms] : n \in 0..1}}
    \cup
    {ClassIn(33, <<>>, <<>>, <<>>, <<ModuleAtom(exports_to, uses, provides_with)>>) :
        exports_to \in {<<>>, <<10>>}, uses \in {<<>>, <<10>>, <<10, 11>>},
        provides_with \in {<<>>, <<11>>}}
    \cup {MinimalIn} \cup TruncatedInputs

\* the bytes of the input: the class file without the last in.cut bytes
FileBytes(in) == SubSeq(ClassBytes(in), 1, Len(ClassBytes(in)) - in.cut)

Init ==
    /\ build \in {"debug", "release"}
    /\ kin \in ClassInputs
    /\ kself = Res(JVMClassNew, NewReader(<<>>))
    /\ kp0 = 0
    /\ kout = NewWriter
    /\ kagain = Res(JVMClassNew, NewReader(<<>>))
    /\ kphase = "start"
    /\ IdleFlags
    /\ IdlePool
    /\ IdleCode
    /\ IdleString
    /\ IdleFrame

Load ==
    /\ kphase = "start"
    /\ kself' = load(JVMClassNew, NewReader(FileBytes(kin)))
    /\ kphase' = "loaded"
    /\ UNCHANGED <<kin, kp0, kout, kagain>>
    /\ UNCHANGED <<build, flagVars, poolVars, codeVars, stringVars, frameVars>>

\* a Cursor over a Vec<u8> that holds `before` already, at its end
WriterAfter(before) == [NewWriter EXCEPT !.buf = before, !.pos = Len(before)]

\* the bytes the writer holds when store begins: none, or three
Before == {<<>>, <<255, 254, 253>>}

\* what store wrote: the bytes of the writer from where store began
Written == SubSeq(kout.buf, kp0 + 1, Len(kout.buf))

Store ==
    /\ kphase = "loaded"
    /\ kself.r.st = "ok"
    /\ \E before \in Before :
          /\ kp0' = Len(before)
          /\ kout' = store(kself.v, WriterAfter(before))
    /\ kphase' = "stored"
    /\ UNCHANGED <<kin, kself, kagain>>
    /\ UNCHANGED <<build, flagVars, poolVars, codeVars, stringVars, frameVars>>

Reload ==
    /\ kphase = "stored"
    /\ kout.st = "ok"
    /\ kagain' = load(JVMClassNew, NewReader(Written))
    /\ kphase' = "reloaded"
    /\ UNCHANGED <<kin, kself, kp0, kout>>
    /\ UNCHANGED <<build, flagVars, poolVars, codeVars, stringVars, frameVars>>

Next == Load \/ Store \/ Reload

Spec == Init /\ [][Next]_vars

(***************************************************************************)
(* SpecString: get_string on the constants of a class and an id, then      *)
(* get_string_index on the constants and a string                          *)
(***************************************************************************)
\* ids up to one past the longest pool
StringIds == 0..(MaxStringPool + 1)

\* "X", "java/lang/X", "java/lang/"; an Integer; Class and String constants
\* that name every id
StringConstants ==
    {Utf8(Ascii("X")), Utf8(Ascii("java/lang/X")), Utf8(Ascii("java/lang/")),
     constant_of(3, <<7>>)}
    \cup {Class(i) : i \in StringIds} \cup {constant_of(8, <<i>>) : i \in StringIds}

\* the constants of JVMClass::new(), and Invalid before a few constants
StringPools ==
    {<<>>} \cup {<<Invalid>> \o p : p \in UNION {[1..n -> StringConstants] : n \in 0..MaxStringPool}}

InitString ==
    /\ build \in {"debug", "release"}
    /\ gconstants \in StringPools
    /\ gid \in StringIds
    /\ gstring \in {Ascii("X"), Ascii("java/lang/X"), Ascii("m")}
    /\ gresult = Res(<<>>, "ok")
    /\ gindex = Res(0, "ok")
    /\ gphase = "start"
    /\ IdleClass
    /\ IdleFlags
    /\ IdlePool
    /\ IdleCode
    /\ IdleFrame

GetString ==
    /\ gphase = "start"
    /\ gresult' = get_string(gconstants, gid, 0)
    /\ gphase' = "resolved"
    /\ UNCHANGED <<gconstants, gid, gstring, gindex>>
    /\ UNCHANGED <<build, classVars, flagVars, poolVars, codeVars, frameVars>>

GetStringIndex ==
    /\ gphase = "resolved"
    /\ gindex' = get_string_index(gconstants, gstring)
    /\ gphase' = "indexed"
    /\ UNCHANGED <<gconstants, gid, gstring, gresult>>
    /\ UNCHANGED <<build, classVars, flagVars, poolVars, codeVars, frameVars>>

NextString == GetString \/ GetStringIndex

SpecString == InitString /\ [][NextString]_vars

(***************************************************************************)
(* SpecFrame: the StackMapTable arm reads one stack_map_frame              *)
(***************************************************************************)
\* the frame types at the ends of the ranges of the table, and 128 and 246,
\* which the table does not have
FrameTypes == {0, 63, 64, 127, 128, 246, 247, 248, 250, 251, 252, 254, 255}

\* the bytes after the frame type: 0 and 1 (Top, Integer, and the bytes of
\* small numbers) and 7 (Object, with a cpool_index)
FrameBytes == UNION {[1..n -> {0, 1, 7}] : n \in 0..MaxFrameBytes}

InitFrame ==
    /\ build \in {"debug", "release"}
    /\ mbytes \in {<<frame_type>> \o bytes : frame_type \in FrameTypes, bytes \in FrameBytes}
    /\ mframe = Res(<<>>, NewReader(<<>>))
    /\ mphase = "start"
    /\ IdleClass
    /\ IdleFlags
    /\ IdlePool
    /\ IdleCode
    /\ IdleString

ReadStackMapFrame ==
    /\ mphase = "start"
    /\ mframe' = read_stack_map_frame(NewReader(mbytes))
    /\ mphase' = "read"
    /\ UNCHANGED mbytes
    /\ UNCHANGED <<build, classVars, flagVars, poolVars, codeVars, stringVars>>

NextFrame == ReadStackMapFrame

SpecFrame == InitFrame /\ [][NextFrame]_vars

(***************************************************************************)
(* C1, C2, C8                                                              *)
(***************************************************************************)
RECURSIVE OrFst(_)
OrFst(pairs) ==
    IF pairs = <<>> THEN 0 ELSE BitOr(Head(pairs)[1], OrFst(Tail(pairs)))

Stored == kphase \in {"stored", "reloaded"}

\* the input is a class file as the format has them, and every bit of its
\* access flags is a flag of the table
WellFormedInput ==
    /\ kin.cut = 0
    /\ \A k \in 1..Len(kin.attributes) : kin.attributes[k] \in GoodAttrAtoms
    /\ BitAnd(kin.access_flags, 65535 - OrFst(CLASS_FLAGS)) = 0

\* C1: when load accepts a well-formed class file whose access flags hold
\* mapped bits only and whose strings are ASCII, store on the loaded class
\* succeeds and writes exactly the bytes of the file.
C1_ByteRoundTrip ==
    (Stored /\ WellFormedInput) => kout.st = "ok" /\ Written = ClassBytes(kin)

\* C2: load on the bytes store wrote for a loaded class succeeds and gives a
\* class equal to it, field by field.
C2_StructureRoundTrip ==
    kphase = "reloaded" => kagain.r.st = "ok" /\ kagain.v = kself.v

\* C8: a class whose attributes are named, by a Utf8, with a name the reader
\* does not know loads with each of them as Unknown{name, data}, name the
\* string of that Utf8 and data the attribute_length bytes of the attribute;
\* store then ends with the bytes these attributes had in the file: the same
\* name index, the same length, the same bytes.
C8_UnknownPassThrough ==
    (/\ kin.attributes # <<>>
     /\ \A k \in 1..Len(kin.attributes) : kin.attributes[k] \in UnknownAtoms)
    => /\ kphase # "start" =>
            /\ kself.r.st = "ok"
            /\ Len(kself.v.attributes) = Len(kin.attributes)
            /\ \A k \in 1..Len(kin.attributes) :
                  kself.v.attributes[k] =
                      [attr |-> "Unknown",
                       fields |->
                           [name |-> kself.v.constants[kin.attributes[k].name_index + 1].bytes,
                            data |-> kin.attributes[k].info]]
       /\ Stored =>
            /\ kout.st = "ok"
            /\ SubSeq(Written, Len(Written) - Len(AttrsBytes(kin.attributes)) + 1,
                      Len(Written)) = AttrsBytes(kin.attributes)

(***************************************************************************)
(* C3                                                                      *)
(***************************************************************************)
\* the position of a flag in a table (0 when it is not in it)
TableIndex(mapping, flag) ==
    IF \E i \in 1..Len(mapping) : mapping[i][2] = flag
    THEN CHOOSE i \in 1..Len(mapping) : mapping[i][2] = flag
    ELSE 0

\* C3: in each of the nine contexts and for every mask m, packing the
\* unpacked flags gives m AND U, U the OR of the table's masks; the unpacked
\* vector holds exactly the flags whose mask bit is set in m, each once, in
\* table order.
C3_FlagRoundTrip ==
    LET T == FlagTable(fctx) IN
    /\ fphase = "packed" => fpacked = BitAnd(fmask, OrFst(T))
    /\ fphase \in {"unpacked", "packed"} =>
        /\ \A i \in 1..Len(T) :
              (BitAnd(T[i][1], fmask) # 0) <=> Contains(fflags, T[i][2])
        /\ \A i \in 1..Len(fflags) : TableIndex(T, fflags[i]) # 0
        /\ \A i, j \in 1..Len(fflags) :
              i < j => TableIndex(T, fflags[i]) < TableIndex(T, fflags[j])

\* a mask with a mapped and an unmapped bit set has been unpacked and packed
C3_Witness ==
    /\ fphase = "packed"
    /\ fctx = "class"
    /\ fmask = \h0003
    /\ fpacked = \h0001

(***************************************************************************)
(* C4, C5                                                                  *)
(***************************************************************************)
PoolRead == pphase \in {"read", "written", "again"} /\ pread.r.st = "ok"

\* the entry at pool index k
PoolAt(constants, k) == constants[k + 1]

\* C4: after read_constant_pool succeeds, entry 0 of the pool is Invalid, and
\* for every Long or Double at index i the entry at index i+1 exists and is
\* Invalid.
C4_WidePlaceholders ==
    PoolRead =>
        /\ Len(pread.v) >= 1
        /\ PoolAt(pread.v, 0) = Invalid
        /\ \A i \in 0..(Len(pread.v) - 1) :
              PoolAt(pread.v, i).tag \in {"Long", "Double"} =>
                  /\ i + 1 <= Len(pread.v) - 1
                  /\ PoolAt(pread.v, i + 1) = Invalid

\* a Long was read in the last slot the count allows, and a Double before it
C4_Witness ==
    /\ PoolRead
    /\ pchunks = <<DoubleTwo, LongOne>>
    /\ pcount = 4
    /\ pread.v = <<Invalid, Double(Tail(DoubleTwo)), Invalid, Long(Tail(LongOne)), Invalid>>

\* the index fields a constant carries
IndexFields(cnst) ==
    CASE cnst.tag \in {"Class", "Module", "Package"} -> {cnst.name_index}
      [] cnst.tag = "String" -> {cnst.string_index}
      [] cnst.tag \in {"Fieldref", "Methodref", "InterfaceMethodref"} ->
            {cnst.class_index, cnst.name_and_type_index}
      [] cnst.tag = "NameAndType" -> {cnst.name_index, cnst.descriptor_index}
      [] cnst.tag = "MethodHandle" -> {cnst.reference_index}
      [] cnst.tag = "MethodType" -> {cnst.descriptor_index}
      [] cnst.tag \in {"Dynamic", "InvokeDynamic"} -> {cnst.name_and_type_index}
      [] OTHER -> {}

Resolves(constants, k) ==
    k <= Len(constants) - 1 /\ PoolAt(constants, k) # Invalid

IndicesResolve(constants) ==
    \A i \in 0..(Len(constants) - 1) :
        \A k \in IndexFields(PoolAt(constants, i)) : Resolves(constants, k)

\* C5 as stated: after read_constant_pool succeeds, every index field carried
\* by a constant resolves to an existing, non-Invalid entry of the decoded
\* pool.
C5_IndicesResolve == PoolRead => IndicesResolve(pread.v)

\* The class-file numbering of the input, computed on the entries themselves:
\* the slot where entry k begins (a Long or a Double takes two slots)
RECURSIVE SlotOf(_, _)
SlotOf(chunks, k) ==
    IF k = 1 THEN 1
    ELSE SlotOf(chunks, k - 1) + (IF chunks[k - 1][1] \in {5, 6} THEN 2 ELSE 1)

\* the index fields of a complete cp_info entry, read off its bytes
ChunkIndexFields(c) ==
    CASE c[1] \in {7, 8, 16, 19, 20} -> {c[2] * 256 + c[3]}
      [] c[1] \in {9, 10, 11, 12} -> {c[2] * 256 + c[3], c[4] * 256 + c[5]}
      [] c[1] = 15 -> {c[3] * 256 + c[4]}
      [] c[1] \in {17, 18} -> {c[4] * 256 + c[5]}
      [] OTHER -> {}

\* the entries that begin in slots 1..count-1 fill the input's pool, each is
\* complete, and each of their index fields names a slot where one of them
\* begins
InputIndicesValid ==
    LET used == {k \in 1..Len(pchunks) : SlotOf(pchunks, k) < pcount} IN
    /\ \A k \in used : pchunks[k] \in GoodChunks
    /\ \A k \in used : \A x \in ChunkIndexFields(pchunks[k]) :
          \E j \in used : SlotOf(pchunks, j) = x

\* C5, amended: after read_constant_pool succeeds on complete entries whose
\* index fields each name a slot below the count where an entry begins, every
\* index field carried by a constant resolves to an existing, non-Invalid
\* entry of the decoded pool.
C5_ValidIndicesResolve == (PoolRead /\ InputIndicesValid) => IndicesResolve(pread.v)

\* a Class that names the slot after a Long's two slots, itself
C5_Witness ==
    /\ PoolRead
    /\ InputIndicesValid
    /\ pchunks = <<LongOne, ClassOf(3)>>
    /\ pcount = 4
    /\ PoolAt(pread.v, 3) = Class(3)

(***************************************************************************)
(* C6, C7, C9, C10                                                         *)
(***************************************************************************)
\* C6: for the instructions compile accepts, the sizes Instruction::size
\* gives add up to the number of bytes compile emitted for them (the bytes
\* after the four of code_length); for bytecode of one instruction,
\* Instruction::size of it is the number of bytes emitted for it.
C6_SizeIsEmittedLength ==
    cphase \in {"sized", "again"} =>
        /\ \A k \in 1..Len(csizes) : csizes[k].r = "ok"
        /\ Sum([k \in 1..Len(csizes) |-> csizes[k].v]) = Len(cout.buf) - 4

\* the offset of the opcode of instruction k of the input
AtomPc(atoms, k) == Len(Assemble(SubSeq(atoms, 1, k - 1), 0))

Decoded == cphase \in {"decoded", "compiled", "sized", "again"} /\ cinsts.r.st = "ok"

\* C7: after decompile, the padding stored on every TableSwitch and every
\* LookupSwitch is (4 - ((pc + 1) mod 4)) mod 4, pc the offset of the switch
\* opcode in the bytecode.
C7_SwitchPadding ==
    (Decoded /\ Len(cinsts.v) = Len(catoms)) =>
        \A k \in 1..Len(catoms) :
            cinsts.v[k].op \in {"TableSwitch", "LookupSwitch"} =>
                cinsts.v[k].padding = (4 - ((AtomPc(catoms, k) + 1) % 4)) % 4

Compiled == cphase \in {"compiled", "sized", "again"} /\ cout.st = "ok"

\* C9: bytecode made of a tableswitch among one-byte instructions, decoded
\* and encoded, is the bytes it was: the opcode 0xAA at the offset it had,
\* the zero bytes of its padding, default, low, high and the jump offsets;
\* so for iload_0, tableswitch(low=0, high=1), ireturn, with two zero bytes.
C9_TableSwitchRoundTrip ==
    (/\ Compiled
     /\ \A k \in 1..Len(catoms) : catoms[k] \in {ILoad0Atom, TableSwitch01Atom, IReturnAtom}
     /\ \E k \in 1..Len(catoms) : catoms[k] = TableSwitch01Atom)
    => cout.buf = CodeBytes

\* C10: a wide instruction, decoded and encoded, is the prefix 0xC4, the
\* opcode, the index and for iinc the count, as it was read (IIncW(300,
\* 0xFFFB) is C4 84 01 2C FF FB), and decoding these bytes gives the
\* instruction again.
C10_WideEncoding ==
    /\ (Compiled /\ Len(catoms) = 1 /\ catoms[1] \in WideAtoms \cup {IIncWAtom})
           => cout.buf = CodeBytes
    /\ (cphase = "again" /\ Len(catoms) = 1 /\ catoms[1] \in WideAtoms \cup {IIncWAtom})
           => cagain.r.st = "ok" /\ cagain.v = cinsts.v

(***************************************************************************)
(* C11                                                                     *)
(***************************************************************************)
\* C11: each one-byte load iload_0..aload_3 and the matching one-byte store
\* decode to the general variant with the index 0..3 of the opcode, and
\* compile writes the same two bytes again (1A 3B is [ILoad(0), IStore(0)]
\* and is written as 1A 3B, not as 15 00 36 00).
C11_ShortForms ==
    \A k \in 26..45 :
        catoms = <<Atom(<<k>>, <<>>), Atom(<<k + 33>>, <<>>)>> =>
            LET kind == <<"I", "L", "F", "D", "A">>[((k - 26) \div 4) + 1]
                index == (k - 26) % 4
            IN /\ cphase # "start" =>
                    /\ cinsts.r.st = "ok"
                    /\ cinsts.v = <<Inst(kind \o "Load", <<index>>),
                                    Inst(kind \o "Store", <<index>>)>>
               /\ cphase \in {"compiled", "sized", "again"} =>
                    /\ cout.st = "ok"
                    /\ cout.buf = <<0, 0, 0, 2, k, k + 33>>

\* 1A 3B has been decoded and written again
C11_Witness ==
    /\ cphase = "compiled"
    /\ catoms = <<ILoad0Atom, Atom(<<59>>, <<>>)>>
    /\ cinsts.v = <<Inst("ILoad", <<0>>), Inst("IStore", <<0>>)>>
    /\ cout.buf = <<0, 0, 0, 2, 26, 59>>

(***************************************************************************)
(* C12                                                                     *)
(***************************************************************************)
\* the pool starts with Invalid and holds an Invalid after each Long and each
\* Double and nowhere else
WidePool(constants) ==
    /\ Len(constants) >= 1
    /\ constants[1] = Invalid
    /\ \A i \in 2..Len(constants) :
          (constants[i] = Invalid) <=> (constants[i - 1].tag \in {"Long", "Double"})
    /\ constants[Len(constants)].tag \notin {"Long", "Double"}

\* the size of the cp_info structure of a constant in the class-file format
CpInfoLen(cnst) ==
    CASE cnst.tag = "Invalid" -> 0
      [] cnst.tag = "Utf8" -> 3 + Len(cnst.bytes)
      [] cnst.tag \in {"Class", "String", "MethodType", "Module", "Package"} -> 3
      [] cnst.tag = "MethodHandle" -> 4
      [] cnst.tag \in {"Long", "Double"} -> 9
      [] OTHER -> 5

\* C12: for a pool that starts with Invalid and has an Invalid exactly after
\* each Long and Double, write_constant_pool writes the length of the pool as
\* the count, then the cp_info of each entry other than Invalid and nothing
\* for Invalid, and read_constant_pool on these bytes gives the same entries
\* in the same order.
C12_PoolRoundTrip ==
    WidePool(pread.v) =>
        /\ pphase \in {"written", "again"} =>
              /\ pwritten.st = "ok"
              /\ SubSeq(pwritten.buf, 1, 2) = <<0, Len(pread.v)>>
              /\ Len(pwritten.buf) =
                    2 + Sum([k \in 1..Len(pread.v) |-> CpInfoLen(pread.v[k])])
        /\ pphase = "again" => pagain.r.st = "ok" /\ pagain.v = pread.v

\* [Invalid, Long(42), Invalid, Utf8("x")] has been written with count 4 and
\* read again
C12_Witness ==
    /\ pphase = "again"
    /\ pread.v = <<Invalid, Long(Tail(LongFortyTwo)), Invalid, Utf8(<<120>>)>>
    /\ pwritten.buf = <<0, 4>> \o LongFortyTwo \o Utf8x
    /\ pagain.v = pread.v

(***************************************************************************)
(* C13                                                                     *)
(***************************************************************************)
\* the structure with major 52, minor 0, flags {Public, Super}, this_class 2,
\* super_class 4, the constants [Invalid, Class{2}, Utf8("Empty"), Class{4},
\* Utf8("java/lang/Object")] and nothing else
MinimalClass ==
    [major |-> 52, minor |-> 0, access_flags |-> <<"Public", "Super">>,
     this_class |-> 2, super_class |-> 4,
     constants |-> <<Invalid, Class(2), Utf8(Ascii("Empty")), Class(4),
                     Utf8(Ascii("java/lang/Object"))>>,
     interfaces |-> <<>>, fields |-> <<>>, methods |-> <<>>, attributes |-> <<>>]

\* C13 as stated: store on this structure emits exactly 53 bytes.
C13_MinimalClassIs53Bytes ==
    (Stored /\ kself.v = MinimalClass) => kout.st = "ok" /\ Len(Written) = 53

\* C13, amended: store on this structure emits exactly 57 bytes; they begin
\* with CA FE BA BE, and the access flags, after the 8 bytes of magic and
\* version and the 35 of the pool, are 00 21.
C13_MinimalClassIs57Bytes ==
    (Stored /\ kself.v = MinimalClass) =>
        /\ kout.st = "ok"
        /\ Len(Written) = 57
        /\ SubSeq(Written, 1, 4) = <<202, 254, 186, 190>>
        /\ SubSeq(Written, 44, 45) = <<0, 33>>

\* store has run on the structure
C13_Witness == kphase = "stored" /\ kself.v = MinimalClass /\ Len(Written) = 57

(***************************************************************************)
(* C14, C15                                                                *)
(***************************************************************************)
\* the entry the id names
StringEntry == gconstants[gid + 1]

\* C14 as stated: for an id that names a Utf8, get_string returns its string;
\* for a String, what get_string returns for string_index; for a Class,
\* exactly what get_string returns for name_index.
C14_GetStringResolves ==
    (gphase # "start" /\ gid < Len(gconstants)) =>
        /\ StringEntry.tag = "Utf8" => gresult = Res(StringEntry.bytes, "ok")
        /\ StringEntry.tag = "String" =>
              gresult = get_string(gconstants, StringEntry.string_index, 0)
        /\ StringEntry.tag = "Class" =>
              gresult = get_string(gconstants, StringEntry.name_index, 0)

\* a result without the ten leading bytes "java/lang/", if it is a string
\* that has them
WithoutJavaLang(result) ==
    IF /\ result.r = "ok"
       /\ Len(result.v) >= 10
       /\ \A k \in 1..10 : result.v[k] = <<106, 97, 118, 97, 47, 108, 97, 110, 103, 47>>[k]
    THEN Res([k \in 1..(Len(result.v) - 10) |-> result.v[k + 10]], "ok")
    ELSE result

\* C14, amended: for an id that names a Utf8, get_string returns its string;
\* for a String, what get_string returns for string_index; for a Class, what
\* get_string returns for name_index, without its first ten characters when
\* that string starts with "java/lang/".
C14_GetStringResolvesShort ==
    (gphase # "start" /\ gid < Len(gconstants)) =>
        /\ StringEntry.tag = "Utf8" => gresult = Res(StringEntry.bytes, "ok")
        /\ StringEntry.tag = "String" =>
              gresult = get_string(gconstants, StringEntry.string_index, 0)
        /\ StringEntry.tag = "Class" =>
              gresult = WithoutJavaLang(get_string(gconstants, StringEntry.name_index, 0))

\* the class java/lang/X has been resolved, to "X"
C14_Witness ==
    /\ gphase = "resolved"
    /\ gconstants = <<Invalid, Class(2), Utf8(Ascii("java/lang/X"))>>
    /\ gid = 1
    /\ gresult = Res(<<88>>, "ok")

\* the id of the entry reached from an id through String and Class entries,
\* -1 when an index on the way names no entry or the way never ends
RECURSIVE Reached(_, _, _)
Reached(constants, id, fuel) ==
    IF id >= Len(constants) \/ fuel = 0 THEN -1
    ELSE IF constants[id + 1].tag = "Class"
         THEN Reached(constants, constants[id + 1].name_index, fuel - 1)
    ELSE IF constants[id + 1].tag = "String"
         THEN Reached(constants, constants[id + 1].string_index, fuel - 1)
    ELSE id

\* C15: get_string(index) returns InvalidConstantId(index) when index is at
\* or beyond the length of the pool, and ConstantTypeError when the entry
\* reached is neither Utf8, String nor Class; get_string_index(s) returns
\* StringNotFound when no Utf8 of the pool is s, and otherwise an index i
\* with constants[i] = Utf8(s).
C15_StringViewErrors ==
    /\ (gphase # "start" /\ gid >= Len(gconstants)) =>
            gresult = Res(gid, "InvalidConstantId")
    /\ (gphase # "start" /\ Reached(gconstants, gid, Len(gconstants)) >= 0) =>
            LET reached == gconstants[Reached(gconstants, gid, Len(gconstants)) + 1] IN
            IF reached.tag = "Utf8" THEN gresult.r = "ok"
            ELSE gresult.r = "ConstantTypeError"
    /\ gphase = "indexed" =>
            IF \A i \in 1..Len(gconstants) : gconstants[i] # Utf8(gstring)
            THEN gindex.r = "StringNotFound"
            ELSE /\ gindex.r = "ok"
                 /\ gindex.v \in 0..(Len(gconstants) - 1)
                 /\ gconstants[gindex.v + 1] = Utf8(gstring)

\* get_string has met Invalid, and get_string_index has found "X"
C15_Witness ==
    /\ gphase = "indexed"
    /\ gconstants = <<Invalid, Utf8(Ascii("X"))>>
    /\ gid = 0
    /\ gresult.r = "ConstantTypeError"
    /\ gstring = Ascii("X")
    /\ gindex = Res(1, "ok")

(***************************************************************************)
(* C16                                                                     *)
(***************************************************************************)
\* C16: when load returns an error, an I/O error or a failure of get_string
\* on the name of an attribute, every field of the receiver holds the value
\* it had before the call.
C16_NoPartialStructure ==
    (kphase # "start" /\ kself.r.st \in {"eof", "java"}) => kself.v = JVMClassNew

(***************************************************************************)
(* C17                                                                     *)
(***************************************************************************)
\* C17: after a store that succeeds, on a writer that was at position p0,
\* the position of the writer is p0 plus the number of bytes of the class
\* file, the end of what was written, whatever attributes and Code blocks
\* the class has; the bytes before p0 are as they were.
C17_PositionAtEnd ==
    (Stored /\ kout.st = "ok") =>
        /\ kout.pos = kp0 + Len(Written)
        /\ kout.pos = Len(kout.buf)
        /\ \E before \in Before : Len(before) = kp0 /\ SubSeq(kout.buf, 1, kp0) = before

\* a method with a Code attribute that holds a LineNumberTable has been
\* stored on a writer that was at position 3
C17_Witness ==
    /\ kphase = "stored"
    /\ kout.st = "ok"
    /\ kp0 = 3
    /\ kout.pos > 3
    /\ Len(kself.v.methods) = 1
    /\ Len(kself.v.methods[1].attributes) = 1
    /\ kself.v.methods[1].attributes[1].attr = "Code"
    /\ Len(kself.v.methods[1].attributes[1].fields.code) > 0
    /\ Len(kself.v.methods[1].attributes[1].fields.attributes) = 1

(***************************************************************************)
(* C18                                                                     *)
(***************************************************************************)
\* the number the bytes of `buf` from offset `at` on are, most significant
\* byte first
RECURSIVE BigEndian(_, _, _)
BigEndian(buf, at, width) ==
    IF width = 0 THEN 0
    ELSE BigEndian(buf, at, width - 1) * 256 + buf[at + width]

\* C18: for every attribute write_attributes has written, in the class, in
\* a member, in a Code or in a Record, with its header at P and its end at
\* Q, the u32 at P + 2 is Q - P - 6 in the end, the number of bytes written
\* for the attribute after its header, and the u16 at P is the index in the
\* pool of a Utf8 that is the name of the attribute.
C18_AttributeBackpatch ==
    (Stored /\ kout.st = "ok") =>
        \A k \in 1..Len(kout.patched) :
            LET P == kout.patched[k].attr_start
                Q == kout.patched[k].attr_end
                name_index == BigEndian(kout.buf, P, 2)
            IN /\ kp0 + 2 <= P /\ P + 6 <= Q /\ Q <= Len(kout.buf)
               /\ BigEndian(kout.buf, P + 2, 4) = Q - P - 6
               /\ name_index < Len(kself.v.constants)
               /\ kself.v.constants[name_index + 1] = Utf8(kout.patched[k].attr_name)

\* a Record with a component that has an attribute has been stored: the
\* attribute of the component ends where the Record does
C18_Witness ==
    /\ kphase = "stored"
    /\ kout.st = "ok"
    /\ Len(kout.patched) = 2
    /\ kout.patched[2].attr_name = <<82, 101, 99, 111, 114, 100>>
    /\ kout.patched[1].attr_start = kout.patched[2].attr_start + 14
    /\ kout.patched[1].attr_end = kout.patched[2].attr_end
    /\ kout.patched[1].attr_end > kout.patched[1].attr_start + 6

(***************************************************************************)
(* C19                                                                     *)
(***************************************************************************)
\* the input is a whole file, and the attribute_length of each attribute of
\* the class is the number of bytes of its info
FramedInput ==
    /\ kin.cut = 0
    /\ \A k \in 1..Len(kin.attributes) :
          kin.attributes[k].length = Len(kin.attributes[k].info)

\* C19: the parser of an attribute, known by its name or not, advances the
\* stream by the attribute_length of the header, so that the next header is
\* read where the info ends, whatever the info is: a load that succeeds has
\* read as many attributes of the class as the file has, and is at the end
\* of the file after the last.
C19_ConsumesLength ==
    (kphase # "start" /\ kself.r.st = "ok" /\ FramedInput) =>
        /\ Len(kself.v.attributes) = Len(kin.attributes)
        /\ kself.r.pos = Len(kself.r.buf)

(***************************************************************************)
(* C20                                                                     *)
(***************************************************************************)
\* what follows the code in the info of a Code attribute of the file: the
\* exception table and the attributes
AfterCode(info) == SubSeq(info, 8 + BigEndian(info, 4, 4) + 1, Len(info))

\* C20: store writes, for a Code attribute, the number of its exception
\* entries and start_pc, end_pc, handler_pc, catch_type of each: the Code of
\* a method loaded with one entry or more is written with the exception
\* table the file has, and the file ends with this table, the attributes of
\* the Code and the count of the attributes of the class.
C20_ExceptionTableWritten ==
    (/\ Stored
     /\ Len(kself.v.methods) = 1
     /\ Len(kself.v.methods[1].attributes[1].fields.exception_table) >= 1) =>
        LET tail == AfterCode(kin.methods[1].attributes[1].info) \o <<0, 0>> IN
        /\ kout.st = "ok"
        /\ SubSeq(Written, Len(Written) - Len(tail) + 1, Len(Written)) = tail

(***************************************************************************)
(* C21                                                                     *)
(***************************************************************************)
\* the u16 of the frame at offset `at`
FrameU16(at) == mbytes[at + 1] * 256 + mbytes[at + 2]

\* n verification types of the frame from offset `at` on
FrameTypesAt(at, n) ==
    read_verification_types([NewReader(mbytes) EXCEPT !.pos = at], n)

\* the offset_delta of a frame: the frame type itself for SameFrame, the
\* frame type less 64 for SameLocals1StackItemFrame, the field otherwise
OffsetDelta(frame) ==
    CASE frame.frame_type.tag = "SameFrame" -> frame.frame_type.frame_type
      [] frame.frame_type.tag = "SameLocals1StackItemFrame" ->
            frame.frame_type.frame_type - 64
      [] OTHER -> frame.offset_delta

\* frame types 0..63: offset_delta is the frame type, no locals, no stack
SameFrameRead ==
    (mphase = "read" /\ mbytes[1] \in 0..63) =>
        /\ mframe.r.st = "ok" /\ mframe.r.pos = 1
        /\ OffsetDelta(mframe.v) = mbytes[1]
        /\ mframe.v.locals = <<>> /\ mframe.v.stack = <<>>

\* frame types 64..127: offset_delta is the frame type less 64, one stack
\* entry follows
SameLocalsRead ==
    (mphase = "read" /\ mbytes[1] \in 64..127 /\ FrameTypesAt(1, 1).r.st = "ok") =>
        /\ mframe.r = FrameTypesAt(1, 1).r
        /\ OffsetDelta(mframe.v) = mbytes[1] - 64
        /\ mframe.v.locals = <<>> /\ mframe.v.stack = FrameTypesAt(1, 1).v

\* frame type 247: a u16 offset_delta, then one stack entry
SameLocalsExtendedRead ==
    (mphase = "read" /\ mbytes[1] = 247 /\ Len(mbytes) >= 3
        /\ FrameTypesAt(3, 1).r.st = "ok") =>
        /\ mframe.r = FrameTypesAt(3, 1).r
        /\ OffsetDelta(mframe.v) = FrameU16(1)
        /\ mframe.v.locals = <<>> /\ mframe.v.stack = FrameTypesAt(3, 1).v

\* frame types 248..251: a u16 offset_delta
ChopOrSameExtendedRead ==
    (mphase = "read" /\ mbytes[1] \in 248..251 /\ Len(mbytes) >= 3) =>
        /\ mframe.r.st = "ok" /\ mframe.r.pos = 3
        /\ OffsetDelta(mframe.v) = FrameU16(1)
        /\ mframe.v.locals = <<>> /\ mframe.v.stack = <<>>

\* frame types 252..254: a u16 offset_delta, then frame type less 251 locals
AppendRead ==
    (mphase = "read" /\ mbytes[1] \in 252..254 /\ Len(mbytes) >= 3
        /\ FrameTypesAt(3, mbytes[1] - 251).r.st = "ok") =>
        /\ mframe.r = FrameTypesAt(3, mbytes[1] - 251).r
        /\ OffsetDelta(mframe.v) = FrameU16(1)
        /\ mframe.v.locals = FrameTypesAt(3, mbytes[1] - 251).v /\ mframe.v.stack = <<>>

\* frame type 255: a u16 offset_delta, then a u16 and as many locals, then a
\* u16 and as many stack entries
FullRead ==
    (mphase = "read" /\ mbytes[1] = 255 /\ Len(mbytes) >= 5) =>
        LET locals == FrameTypesAt(5, FrameU16(3)) IN
        (locals.r.st = "ok" /\ locals.r.pos + 2 <= Len(mbytes)) =>
            LET stack == FrameTypesAt(locals.r.pos + 2, FrameU16(locals.r.pos)) IN
            stack.r.st = "ok" =>
                /\ mframe.r = stack.r
                /\ OffsetDelta(mframe.v) = FrameU16(1)
                /\ mframe.v.locals = locals.v /\ mframe.v.stack = stack.v

\* C21: the frame read for a frame type ft follows the table: for 0..63
\* offset_delta is ft; for 64..127 it is ft - 64 and one stack entry follows;
\* for 247 a u16 offset_delta is read before the stack entry; for 248..251
\* and 252..254 a u16 offset_delta is read, then ft - 251 locals for
\* 252..254; for 255 a u16 offset_delta is read before the count of locals.
C21_FrameTypeTable ==
    /\ SameFrameRead
    /\ SameLocalsRead
    /\ SameLocalsExtendedRead
    /\ ChopOrSameExtendedRead
    /\ AppendRead
    /\ FullRead

(***************************************************************************)
(* C22                                                                     *)
(***************************************************************************)
\* C22: store writes a Module attribute that load read with the bytes it
\* had: uses_count before the uses, exports_to_count, opens_to_count and
\* provides_with_count before their lists, as the reader reads them.  The
\* attribute is the one attribute of the class, the last thing written.
C22_ModuleRoundTrip ==
    (Stored /\ Len(kself.v.attributes) = 1 /\ kself.v.attributes[1].attr = "Module") =>
        /\ kout.st = "ok"
        /\ SubSeq(Written, Len(Written) - Len(AttrsBytes(kin.attributes)) + 1,
                  Len(Written)) = AttrsBytes(kin.attributes)

(***************************************************************************)
(* C23                                                                     *)
(***************************************************************************)
\* C23: for a count of 1 or more and any tags, read_constant_pool makes no
\* entry at an index from count on: the pool it returns, placeholders
\* included, is no longer than count, and the count write_constant_pool
\* writes for it is the count read, also when the last tag read is a Long
\* or a Double at index count - 1.
C23_StopsAtCount ==
    /\ (pphase # "start" /\ pcount >= 1 /\ pread.r.st = "ok") => Len(pread.v) <= pcount
    /\ (PoolRead /\ pphase # "read" /\ pcount >= 1 /\ pwritten.st = "ok") =>
            SubSeq(pwritten.buf, 1, 2) = ToBytes("u16", pcount)

(***************************************************************************)
(* C24                                                                     *)
(***************************************************************************)
\* tableswitch instructions with low <= high as signed numbers and
\* high - low + 1 = 2 jump offsets: 0..1, -1..0, -2..-1
SignedRangeSwitches ==
    {TableSwitchAtom(16, low, low + 1, <<12, 14>>) : low \in {0, -1, -2}}

\* C24: for low <= high as signed 32-bit numbers, a negative low included,
\* decompile reads high - low + 1 jump targets of a tableswitch and returns
\* the instruction without aborting.
C24_TableSwitchTargets ==
    (cphase # "start" /\ Len(catoms) = 1 /\ catoms[1] \in SignedRangeSwitches) =>
        /\ cinsts.r.st = "ok"
        /\ Len(cinsts.v) = 1
        /\ cinsts.v[1].op = "TableSwitch"
        /\ cinsts.v[1].jump_targets = <<12, 14>>

(***************************************************************************)
(* C25                                                                     *)
(***************************************************************************)
\* C25: decompile advances the stream it is given by 4 + code_length bytes,
\* whatever the instructions are, and takes the opcode and the operands of
\* every instruction, iinc too, from the cursor over the code_length bytes
\* of the code: an iinc alone in the code is decoded with its own two
\* operand bytes, whatever follows the code in the stream.
C25_BoundedSubView ==
    /\ (cphase # "start" /\ cinsts.r.st = "ok") => cinsts.r.pos = Len(CodeBytes)
    /\ (cphase # "start" /\ catoms = <<Atom(<<132, 3, 251>>, <<>>)>>) =>
            /\ cinsts.r.st = "ok"
            /\ cinsts.v = <<Inst("IInc", <<3, -5>>)>>

\* C26: get_string returns a string or an error for every pool and every
\* index, pools whose String or Class entries refer to themselves or to each
\* other in a cycle included; it never recurses without end
C26_GetStringTerminates ==
    gphase # "start" => gresult.r # "abort"

\* C27: for bytecode decompile accepts, what compile writes is as long as the
\* bytecode was, so every instruction starts at the pc it had; so for a load
\* or store in the general form with an index of 0..3 (15 02), which is
\* written as it was read.
C27_LengthPreserved ==
    /\ (Compiled /\ cinsts.r.st = "ok") => Len(cout.buf) = Len(CodeBytes)
    /\ (cphase # "start" /\ catoms = <<Atom(<<21, 2>>, <<>>)>>) =>
            /\ cinsts.r.st = "ok"
            /\ Compiled => cout.buf = CodeBytes

\* C28: store writes every attribute of the class under the name index load
\* read it under, also when the pool has the name twice and the attribute
\* was named by the second of the two.
C28_NameIndexPreserved ==
    (/\ Stored /\ kout.st = "ok"
     /\ \A k \in 1..Len(kin.attributes) : kin.attributes[k] \in GoodAttrAtoms
     /\ Len(kout.patched) = Len(kin.attributes))
    => \A k \in 1..Len(kin.attributes) :
           BigEndian(kout.buf, kout.patched[k].attr_start, 2) = kin.attributes[k].name_index

(***************************************************************************)
(* C29                                                                     *)
(***************************************************************************)
\* the loop of the class-file format: it keeps the index of the next entry,
\* reads while that index is below count, and moves it on by two after a Long
\* or a Double and by one after any other constant
RECURSIVE reference_loop(_)
reference_loop(s) ==
    LET advanced(cnst) ==
            [s EXCEPT
                !.r = cnst.r,
                !.next = @ + (IF cnst.v.tag \in {"Double", "Long"} THEN 2 ELSE 1),
                !.constants =
                    IF cnst.r.st # "ok" THEN @
                    ELSE IF cnst.v.tag \in {"Double", "Long"} THEN @ \o <<cnst.v, Invalid>>
                    ELSE @ \o <<cnst.v>>]
        entry(tag) == advanced(read_constant(tag.r, tag.v))
    IN IF s.r.st # "ok" \/ s.next >= s.count THEN s
       ELSE reference_loop(entry(read_kind(s.r, "u8")))

reference_pool(r) ==
    LET start(count) ==
            [r |-> count.r, count |-> count.v, next |-> 1, constants |-> <<Invalid>>]
        pool(s) == Res(s.constants, s.r)
    IN pool(reference_loop(start(read_kind(r, "u16"))))

\* C29: for every count and every sequence of entries, read_constant_pool
\* reads the entries the reference loop reads, builds the pool it builds and
\* ends as it ends, at the same offset; count - double_constants never
\* underflows.
C29_LoopIsReferenceLoop ==
    pphase # "start" =>
        /\ pread = reference_pool(NewReader(PoolInput))
        /\ pread.r.st # "overflow"

\* count 3 before a Long and a Utf8: the Long has been read and the Utf8 has
\* not, the loop has stopped at i = 2 = count - double_constants
C29_Witness ==
    /\ pphase = "read"
    /\ pcount = 3
    /\ pchunks = <<LongFortyTwo, Utf8x>>
    /\ pread.r.st = "ok"
    /\ pread.v = <<Invalid, Long(Tail(LongFortyTwo)), Invalid>>
    /\ pread.r.pos = 2 + Len(LongFortyTwo)

(***************************************************************************)
(* C30                                                                     *)
(***************************************************************************)
\* C30: compile returns for every instruction decompile gives, Ret of opcode
\* 0xA9 among them, without reaching unreachable!(), and the first byte it
\* writes for an instruction is an opcode decompile reads as that variant.
C30_EveryVariantEncodable ==
    /\ (cphase \in {"compiled", "sized", "again"} /\ cinsts.r.st = "ok") => cout.st = "ok"
    /\ (cphase \in {"compiled", "sized", "again"} /\ catoms = <<Atom(<<169, 1>>, <<>>)>>) =>
            /\ cinsts.v = <<Inst("Ret", <<1>>)>>
            /\ SubSeq(cout.buf, 5, 5) = <<169>>
    /\ (cphase = "again" /\ Len(cinsts.v) = 1) =>
            /\ cagain.r.st = "ok"
            /\ Len(cagain.v) >= 1
            /\ cagain.v[1].op = cinsts.v[1].op

====
